---- MODULE Spec2Model ----
(***************************************************************************)
(* Kirigami geometry engine: generateKirigamiGeometry and its helpers      *)
(* pushQuad / pushVolumetricSegment.  The repository holds two versions of *)
(* the generator: src/utils/mathEngine.ts (riser-first builder, no stats,  *)
(* called "utils" below) and src/unnamed/part_002 (tread-first builder     *)
(* with spine lines and stats, called "part002" below).  Both are modelled;*)
(* the variable engine says which one a behaviour runs.                    *)
(*                                                                         *)
(* Numbers.  JavaScript doubles are modelled in fixed point:               *)
(*   lengths (mm)      : integers in units of 1/Scale mm  (Scale = 200)    *)
(*   unit vectors, sin : integers in units of 1/TrigScale (TrigScale=10^4) *)
(*   angles            : integers in units of 1/60 of a right angle (1.5 deg)*)
(* foldProgress t is held as the integer 60*t.  Products are rounded to    *)
(* the nearest unit (RoundDiv).                                            *)
(***************************************************************************)
EXTENDS Integers, Naturals, Sequences, FiniteSets, TLC

VARIABLES engine, state, pc, c, positions, normals, indices, blueprintLines,
          segments, stats, calls, first, dxf, args, extents,
          raster, samples, sketchPoints, isDrawing, lastEvent,
          history, historyIndex, edits, mesh

\* What the harnesses around the generator hold
segmentVars == <<args>>

layoutVars == <<extents>>

imageVars == <<raster, samples>>

sketchVars == <<sketchPoints, isDrawing, lastEvent>>

historyVars == <<history, historyIndex, edits>>

viewerVars == <<mesh>>

harness == <<segmentVars, layoutVars, imageVars, sketchVars, historyVars, viewerVars>>

vars == <<engine, state, pc, c, positions, normals, indices, blueprintLines,
          segments, stats, calls, first, dxf, harness>>

\* ------------------------------------------------------------------ bounds
MaxCols == 3
MaxRows == 3

\* ----------------------------------------------------------- fixed point
Scale == 2 * 100
TrigScale == 100 * 100
RightAngle == 6 * 10

\* The value isNaN() answers true for, and the two infinities. The generator
\* produces none of them from a finite configuration; they enter as arguments
\* of pushVolumetricSegment.
NaN == 0 - 999999999

Infinity == 888888888

IsNaN(a) == a = NaN

IsFinite(a) == a # NaN /\ a # Infinity /\ a # 0 - Infinity

Abs(a) == IF a < 0 THEN 0 - a ELSE a

Min(a, b) == IF a < b THEN a ELSE b

Max(a, b) == IF a > b THEN a ELSE b

\* a / b rounded to the nearest integer, halves away from zero (b > 0)
RoundDiv(a, b) == IF a >= 0 THEN (2 * a + b) \div (2 * b)
                  ELSE 0 - ((2 * (0 - a) + b) \div (2 * b))

\* a (length) times t (TrigScale units), as a length
MulT(a, t) == RoundDiv(a * t, TrigScale)

RECURSIVE ISqrtBin(_, _, _)
\* largest r in lo..hi with r*r <= n  (lo*lo <= n)
ISqrtBin(n, lo, hi) ==
  IF lo >= hi THEN lo
  ELSE LET mid == (lo + hi + 1) \div 2
       IN IF mid * mid <= n THEN ISqrtBin(n, mid, hi) ELSE ISqrtBin(n, lo, mid - 1)

\* Math.sqrt, rounded down (n >= 0, n < 2^31)
ISqrt(n) == ISqrtBin(n, 0, Min(n, 46340))

\* 10^4 * sin(k * 1.5 degrees), k = 0..60
SinTab == << 0, 262, 523, 785, 1045, 1305, 1564, 1822, 2079, 2334, 2588, 2840,
   3090, 3338, 3584, 3827, 4067, 4305, 4540, 4772, 5000, 5225, 5446, 5664, 5878,
   6088, 6293, 6494, 6691, 6884, 7071, 7254, 7431, 7604, 7771, 7934, 8090, 8241,
   8387, 8526, 8660, 8788, 8910, 9026, 9135, 9239, 9336, 9426, 9511, 9588, 9659,
   9724, 9781, 9833, 9877, 9914, 9945, 9969, 9986, 9997, 10000 >>

\* Math.sin of an angle of k units (any integer k)
Sin(k) ==
  LET m == k % (4 * RightAngle)
  IN IF m <= RightAngle THEN SinTab[m + 1]
     ELSE IF m <= 2 * RightAngle THEN SinTab[2 * RightAngle - m + 1]
     ELSE IF m <= 3 * RightAngle THEN 0 - SinTab[m - 2 * RightAngle + 1]
     ELSE 0 - SinTab[4 * RightAngle - m + 1]

\* Math.cos of an angle of k units
Cos(k) == Sin(k + RightAngle)

\* 2 * Math.PI in TrigScale units of a radian
TwoPi == 62832

\* Angle units per radian, times 100: 60 / (Math.PI / 2) = 38.20
UnitsPerRadian == 3820

\* SinTab interpolated at a hundredths of an angle unit
SinInterpolated(a) ==
  Sin(a \div 100) + RoundDiv((Sin(a \div 100 + 1) - Sin(a \div 100)) * (a % 100), 100)

\* Math.sin(x) for x in TrigScale units of a radian
SinRad(x) == SinInterpolated(RoundDiv((x % TwoPi) * UnitsPerRadian, TrigScale))

\* Math.cos(x) for x in TrigScale units of a radian
CosRad(x) == SinRad(x + TwoPi \div 4)

\* ------------------------------------------------- IEEE 754 on the sentinels
\* -a
FNeg(a) == IF IsNaN(a) THEN NaN ELSE 0 - a

\* a + b: NaN is absorbing, Infinity + -Infinity is NaN
FAdd(a, b) ==
  IF IsFinite(a) /\ IsFinite(b) THEN a + b
  ELSE IF IsNaN(a) \/ IsNaN(b) THEN NaN
  ELSE IF IsFinite(b) THEN a
  ELSE IF IsFinite(a) \/ a = b THEN b
  ELSE NaN

FSub(a, b) == FAdd(a, FNeg(b))

FSign(a) == IF a < 0 THEN 0 - 1 ELSE 1

\* a * t for non-finite a or t: 0 * Infinity is NaN
FMulNonFinite(a, t) ==
  IF IsNaN(a) \/ IsNaN(t) \/ a = 0 \/ t = 0 THEN NaN
  ELSE FSign(a) * FSign(t) * Infinity

\* a (length) times t (TrigScale units)
FMulT(a, t) == IF IsFinite(a) /\ IsFinite(t) THEN MulT(a, t) ELSE FMulNonFinite(a, t)

\* a * a
FSquare(a) == IF IsFinite(a) THEN a * a ELSE FMulNonFinite(a, a)

\* a / len for len > 0 or len = Infinity, as a unit component
FUnit(a, len) ==
  IF IsNaN(a) THEN NaN
  ELSE IF len = Infinity THEN (IF IsFinite(a) THEN 0 ELSE NaN)
  ELSE IF IsFinite(a) THEN RoundDiv(a * TrigScale, len)
  ELSE a

\* ------------------------------------------------------------ THREE.Vector3
Vec(x, y, z) == <<x, y, z>>

\* v.clone().addScaledVector(d, s): d a unit vector, s a length
AddScaled(v, d, s) == <<v[1] + MulT(s, d[1]), v[2] + MulT(s, d[2]), v[3] + MulT(s, d[3])>>

\* a.cross(b) for a length vector a and a unit vector b: a length vector
Cross(a, b) == << FSub(FMulT(a[2], b[3]), FMulT(a[3], b[2])),
                  FSub(FMulT(a[3], b[1]), FMulT(a[1], b[3])),
                  FSub(FMulT(a[1], b[2]), FMulT(a[2], b[1])) >>

Negate(v) == <<FNeg(v[1]), FNeg(v[2]), FNeg(v[3])>>

LengthSq(v) == FAdd(FAdd(FSquare(v[1]), FSquare(v[2])), FSquare(v[3]))

\* v.normalize(): divideScalar(length() || 1); the result is a unit vector
\* (TrigScale units) whatever the units of v
\* v / len
DivideScalar(v, len) == <<FUnit(v[1], len), FUnit(v[2], len), FUnit(v[3], len)>>

\* Math.sqrt(lengthSq) for a lengthSq that is finite or Infinity
Length(lengthSq) == IF lengthSq = Infinity THEN Infinity ELSE ISqrt(lengthSq)

\* (a length of 0 or NaN is falsy: the vector is divided by 1 and stays as it is)
Normalize(v) ==
  IF IsNaN(LengthSq(v)) \/ LengthSq(v) = 0 THEN v
  ELSE DivideScalar(v, Length(LengthSq(v)))

\* ------------------------------------------------------- program constants
PaperWidth == 210
PaperHeight == 297
PaperMargin == 20

\* PAPER_A4, state.paperSize
width == PaperWidth * Scale
height == PaperHeight * Scale
margin == PaperMargin * Scale

\* const KERF = 0.15
KERF == (15 * Scale) \div 100

\* state.paperThickness || 0.1
DefaultThickness == Scale \div 10

Thickness(st) == IF st.paperThickness = 0 THEN DefaultThickness ELSE st.paperThickness

\* edge.lengthSq() > 0.000001 (mm^2): 10^-6 mm^2 is less than one squared
\* unit, so in fixed point every non-zero edge passes
EdgeLongEnough(edge) == LengthSq(edge) > (Scale * Scale) \div 1000000

\* ---------------------------------------------------------------- buffers
\* The accumulators of one invocation: the three mesh buffers, the blueprint
\* and (history, not in the code) the log of pushVolumetricSegment calls.
EmptyBuffers == [positions |-> <<>>, normals |-> <<>>, indices |-> <<>>,
                 blueprintLines |-> <<>>, segments |-> <<>>]

PushQuadNoOffset(B, v0, v1, v2, v3, n) ==
  IF IsNaN(v0[1]) \/ IsNaN(n[1]) THEN B
  ELSE [B EXCEPT !.positions = @ \o v0 \o v1 \o v2 \o v3,
                 !.normals = @ \o n \o n \o n \o n,
                 !.indices = @ \o <<0, 1, 2, 0, 2, 3>>]

pushQuad(B, v0, v1, v2, v3, n) ==
  LET idx == Len(B.positions) \div 3
  IN IF IsNaN(v0[1]) \/ IsNaN(n[1]) THEN B
     ELSE [B EXCEPT !.positions = @ \o v0 \o v1 \o v2 \o v3,
                    !.normals = @ \o n \o n \o n \o n,
                    !.indices = @ \o <<idx, idx + 1, idx + 2, idx, idx + 2, idx + 3>>]

\* nLeft: edge.cross(n) in utils/mathEngine.ts, n.clone().cross(edge) in part_002
LeftWallNormal(eng, edge, n) ==
  IF eng = "utils" THEN Normalize(Cross(edge, n)) ELSE Normalize(Cross(n, edge))

VAdd(v, w) == <<FAdd(v[1], w[1]), FAdd(v[2], w[2]), FAdd(v[3], w[3])>>

VSub(v, w) == <<FSub(v[1], w[1]), FSub(v[2], w[2]), FSub(v[3], w[3])>>

\* off = safeN.multiplyScalar(-thickness), safeN = n.clone().normalize()
ThicknessOffset(safeN, thickness) ==
  <<FMulT(0 - thickness, safeN[1]), FMulT(0 - thickness, safeN[2]), FMulT(0 - thickness, safeN[3])>>

\* const safeN = n.clone().normalize(); if (isNaN(safeN.x)) safeN.set(0, 0, 1)
SafeNormal(n) == IF IsNaN(Normalize(n)[1]) THEN Vec(0, 0, TrigScale) ELSE Normalize(n)

\* 3. Side walls: left (v0 -> v3 edge), then right (v1 -> v2 edge)
SideWalls(B, eng, v0, v1, v2, v3, b0, b1, b2, b3, n, edgeL, edgeR, generateLeftWall, generateRightWall) ==
  LET left == IF generateLeftWall /\ EdgeLongEnough(edgeL)
              THEN pushQuad(B, v0, v3, b3, b0, LeftWallNormal(eng, edgeL, n))
              ELSE B
  IN IF generateRightWall /\ EdgeLongEnough(edgeR)
     THEN pushQuad(left, v1, b1, b2, v2, Normalize(Cross(edgeR, n)))
     ELSE left

\* 2. Bottom face (winding reversed) and the side walls, given the offset
ExtrudeBox(top, eng, v0, v1, v2, v3, n, off, generateLeftWall, generateRightWall) ==
  SideWalls(pushQuad(top, VAdd(v0, off), VAdd(v3, off), VAdd(v2, off), VAdd(v1, off), Negate(n)),
            eng, v0, v1, v2, v3, VAdd(v0, off), VAdd(v1, off), VAdd(v2, off), VAdd(v3, off),
            n, VSub(v3, v0), VSub(v2, v1), generateLeftWall, generateRightWall)

pushVolumetricSegment(B, eng, v0, v1, v2, v3, n, thickness, generateLeftWall, generateRightWall) ==
  IF thickness > 0
  THEN ExtrudeBox(pushQuad(B, v0, v1, v2, v3, n), eng, v0, v1, v2, v3, n,
                  ThicknessOffset(SafeNormal(n), thickness), generateLeftWall, generateRightWall)
  ELSE pushQuad(B, v0, v1, v2, v3, n)

\* The log entry of one pushVolumetricSegment call: kind names the call site,
\* paper1..paper2 is the segment's extent in paper space
LogSegment(B, pushed, col, kind, p, q, n, paper1, paper2) ==
  [pushed EXCEPT !.segments = Append(@,
        [col |-> col, kind |-> kind, n |-> n, p |-> p, q |-> q,
         paper1 |-> paper1, paper2 |-> paper2,
         firstVertex |-> Len(B.positions) \div 3,
         quads |-> (Len(pushed.indices) - Len(B.indices)) \div 6])]

\* One segment of the strip between two points p, q of the (y,z) profile,
\* spanning xLeft..xRight, as every call site builds it
\* (the statements before the call have run: B is evaluated first)
Segment(B, eng, col, kind, xLeft, xRight, p, q, n, thickness, paper1, paper2) ==
  IF Len(B.indices) < 0 THEN B
  ELSE LogSegment(B,
             pushVolumetricSegment(B, eng,
                   Vec(xLeft, p[2], p[3]), Vec(xRight, p[2], p[3]),
                   Vec(xRight, q[2], q[3]), Vec(xLeft, q[2], q[3]),
                   n, thickness, TRUE, TRUE),
             col, kind, p, q, n, paper1, paper2)

Line(B, x1, y1, x2, y2, type) ==
  [B EXCEPT !.blueprintLines = Append(@, [x1 |-> x1, y1 |-> y1, x2 |-> x2, y2 |-> y2, type |-> type])]

\* ------------------------------------------------------------ configuration
\* AppState, the fields the generator reads.  frequency = 1.0, curvature = 2.0,
\* roughness = 0.0, heightMapData = null are the values of App's initialState
\* and are fixed in this model; paperSize is PAPER_A4.
Algorithms == {"stairs", "sphere", "pyramid", "image"}

\* amplitude in 1/Scale mm: 0, 0.7, 50 and 200 mm
Amplitudes == {0, (7 * Scale) \div 10, 50 * Scale, 200 * Scale}

\* foldProgress in 1/60: 0, 0.8 (initialState) and 1
FoldProgresses == {0, 48, RightAngle}

\* paperThickness in 1/Scale mm: 0 and 0.2 mm (initialState)
Thicknesses == {0, Scale \div 5}

\* roughness in TrigScale units: the ends of the slider, 0.0 (initialState) and 1.0
Roughnesses == {0, TrigScale}

\* customFormula of initialState
InitialFormula == "Math.sin(x * 10 * f) * Math.cos(x * 5)"

\* customFormula values a user can type: finite, NaN, infinite, throwing
\* (y is not defined) and not compiling
Formulas == {InitialFormula, "x", "2", "0/0", "1/0", "-1/0", "y", "("}

Configs == [algorithm : Algorithms, rows : 1..MaxRows, cols : 1..MaxCols,
            amplitude : Amplitudes, foldProgress : FoldProgresses,
            paperThickness : Thicknesses, roughness : {0},
            customFormula : {InitialFormula}]

\* The geometric primitives that read roughness, and the custom formula
ProfileAlgorithms == {"sphere", "pyramid", "torus", "pagoda", "vase", "canyon", "custom"}

\* Configurations that exercise the profile evaluator: roughness for the
\* geometric primitives, the formula for custom
ProfileConfigs ==
  {cfg \in [algorithm : ProfileAlgorithms, rows : {2}, cols : 1..MaxCols,
            amplitude : {0, 50 * Scale}, foldProgress : {RightAngle},
            paperThickness : {Scale \div 5}, roughness : Roughnesses,
            customFormula : Formulas] :
     IF cfg.algorithm = "custom" THEN cfg.roughness = 0
     ELSE cfg.customFormula = InitialFormula}

Engines == {"utils", "part002"}

\* --------------------------------------------------------------- kinematics
\* foldAngleRad = t * (Math.PI / 2), in angle units
Alpha(st) == st.foldProgress

vecFloor == Vec(0, TrigScale, 0)

normFloor == Vec(0, 0, TrigScale)

VecWallSwapped(st) == Vec(0, Sin(Alpha(st)), Cos(Alpha(st)))

VecWallUnrotated(st) == Vec(0, TrigScale, 0)

\* vecWall = (0, Math.cos(foldAngleRad), Math.sin(foldAngleRad))
vecWall(st) == Vec(0, Cos(Alpha(st)), Sin(Alpha(st)))

normWall(st) == Vec(0, 0 - Sin(Alpha(st)), Cos(Alpha(st)))

\* ------------------------------------------------------------ column layout
effectiveWidth == width - margin * 2

stripWidth(st) == RoundDiv(effectiveWidth, st.cols)

xBase(st, col) == (0 - width) \div 2 + margin + col * stripWidth(st)

XLeft(st, col) == xBase(st, col) + KERF \div 2

XRight(st, col) == xBase(st, col) + stripWidth(st) - KERF \div 2

\* normX = (c / cols) * 2 - 1, in TrigScale units
NormX(st, col) == RoundDiv(2 * col * TrigScale, st.cols) - TrigScale

\* normX * Math.PI as an angle: 2 * RightAngle * (2c/cols - 1)
NormXPi(st, col) == RoundDiv(4 * RightAngle * col, st.cols) - 2 * RightAngle

IsPopupEven(col) == col % 2 = 0

\* const isPopup = c % 2 !== 0
isPopup(col) == col % 2 # 0

\* ============================================== src/unnamed/part_002 builder
\* switch(state.algorithm): the profile radius of an active column
profileRadiusRaw(st, col) ==
  LET xDist == Abs(MulT(width \div 2 - margin, NormX(st, col)))
  IN CASE st.algorithm = "sphere" ->
            IF xDist < st.amplitude
            THEN ISqrt(st.amplitude * st.amplitude - xDist * xDist) ELSE 0
       [] st.algorithm = "pyramid" -> Max(0, st.amplitude - xDist)
       [] st.algorithm \in {"steps", "stairs"} -> st.amplitude
       [] OTHER -> MulT(st.amplitude, Cos(NormXPi(st, col)) \div 2 + TrigScale \div 2)

\* profileRadius = Math.min(profileRadius, height/2 - margin)
profileRadius(st, col) == Min(profileRadiusRaw(st, col), height \div 2 - margin)

NeverNegligible(r) == r < 0

\* if (profileRadius < 1): the radius is negligible
NegligibleRadius(r) == r < Scale

Steps002PlusOne(st) == Max(2, st.rows) + 1

\* const steps = Math.max(2, state.rows)
Steps002(st) == Max(2, st.rows)

FixedColumn002SpineSeam(B, st, col) ==
  LET xLeft == XLeft(st, col)
      xRight == XRight(st, col)
      th == Thickness(st)
      pTop == AddScaled(Vec(0, 0, 0), vecWall(st), height \div 2)
      b1 == Segment(B, "part002", col, "floor", xLeft, xRight,
                    Vec(0, 0 - height \div 2, 0), Vec(0, 0, 0), normFloor, th,
                    0 - height \div 2, 0)
      b4 == Segment(b1, "part002", col, "wall", xLeft, xRight,
                    Vec(0, 0, 0), pTop, normWall(st), th, 0, height \div 2)
  IN Line(b4, xLeft, 0, xRight, 0, "spine")

\* !isPopup: floor segment, wall segment, spine side edges, hinge seam
FixedColumn002(B, st, col) ==
  LET xLeft == XLeft(st, col)
      xRight == XRight(st, col)
      th == Thickness(st)
      pTop == AddScaled(Vec(0, 0, 0), vecWall(st), height \div 2)
      b1 == Segment(B, "part002", col, "floor", xLeft, xRight,
                    Vec(0, 0 - height \div 2, 0), Vec(0, 0, 0), normFloor, th,
                    0 - height \div 2, 0)
      b2 == Line(b1, xLeft, 0 - height \div 2, xLeft, 0, "spine")
      b3 == Line(b2, xRight, 0 - height \div 2, xRight, 0, "spine")
      b4 == Segment(b3, "part002", col, "wall", xLeft, xRight,
                    Vec(0, 0, 0), pTop, normWall(st), th, 0, height \div 2)
      b5 == Line(b4, xLeft, 0, xRight, 0, "valley")
      b6 == Line(b5, xLeft, 0, xLeft, height \div 2, "spine")
  IN Line(b6, xRight, 0, xRight, height \div 2, "spine")

\* profileRadius < 1: treated as passive
NegligibleColumn002(B, st, col) ==
  LET xLeft == XLeft(st, col)
      xRight == XRight(st, col)
      th == Thickness(st)
      pTop == AddScaled(Vec(0, 0, 0), vecWall(st), height \div 2)
      b1 == Segment(B, "part002", col, "floor", xLeft, xRight,
                    Vec(0, 0 - height \div 2, 0), Vec(0, 0, 0), normFloor, th,
                    0 - height \div 2, 0)
      b2 == Segment(b1, "part002", col, "wall", xLeft, xRight,
                    Vec(0, 0, 0), pTop, normWall(st), th, 0, height \div 2)
  IN Line(b2, xLeft, 0, xRight, 0, "valley")

\* dz > 0.01 and dy > 0.01: the thresholds under which a fold line is dropped
FoldThreshold == Scale \div 100

TreadToRiserTypeSwapped == "mountain"

\* The fold tags of the two joints of one step
TreadToRiserType == "valley"

RiserToTreadType == "mountain"

MountainAfterEveryRiser(i, steps, dy) == dy > FoldThreshold

\* if (i < steps - 1 && dy > 0.01): the riser-to-tread fold is drawn, except
\* after the last riser (which continues into the wall margin)
MountainAfterRiser(i, steps, dy) == i < steps - 1 /\ dy > FoldThreshold

RECURSIVE StepLoop002(_, _, _, _, _, _, _)
\* for (i = 0; i < steps; i++): tread, valley, riser, mountain.  L carries
\* B (the buffers), currentPos and currentPaperY.
StepLoop002(L, st, col, i, steps, radius, th) ==
  IF i >= steps THEN L
  ELSE
    LET xLeft == XLeft(st, col)
        xRight == XRight(st, col)
        ang1 == RoundDiv(i * RightAngle, steps)
        ang2 == RoundDiv((i + 1) * RightAngle, steps)
        y1 == MulT(0 - radius, Cos(ang1))
        z1 == MulT(radius, Sin(ang1))
        y2 == MulT(0 - radius, Cos(ang2))
        z2 == MulT(radius, Sin(ang2))
        dy == Abs(y2 - y1)
        dz == Abs(z2 - z1)
        pTreadEnd == AddScaled(L.currentPos, vecFloor, dy)
        b1 == Segment(L.B, "part002", col, "tread", xLeft, xRight,
                      L.currentPos, pTreadEnd, normFloor, th,
                      L.currentPaperY, L.currentPaperY + dy)
        paperY1 == L.currentPaperY + dy
        b2 == IF dz > FoldThreshold
              THEN Line(b1, xLeft, paperY1, xRight, paperY1, TreadToRiserType) ELSE b1
        pRiserEnd == AddScaled(pTreadEnd, vecWall(st), dz)
        b3 == Segment(b2, "part002", col, "riser", xLeft, xRight,
                      pTreadEnd, pRiserEnd, normWall(st), th, paperY1, paperY1 + dz)
        paperY2 == paperY1 + dz
        b4 == IF MountainAfterRiser(i, steps, dy)
              THEN Line(b3, xLeft, paperY2, xRight, paperY2, RiserToTreadType) ELSE b3
    IN StepLoop002([B |-> b4, currentPos |-> pRiserEnd, currentPaperY |-> paperY2],
                   st, col, i + 1, steps, radius, th)

CutLines002NoKerf(B, st, col) ==
  LET b1 == Line(B, xBase(st, col), 0 - height \div 2, xBase(st, col), height \div 2, "cut")
  IN Line(b1, xBase(st, col) + stripWidth(st), 0 - height \div 2,
          xBase(st, col) + stripWidth(st), height \div 2, "cut")

\* The cut lines of an active strip: its two side edges
CutLines002(B, st, col) ==
  LET b1 == Line(B, XLeft(st, col), 0 - height \div 2, XLeft(st, col), height \div 2, "cut")
  IN Line(b1, XRight(st, col), 0 - height \div 2, XRight(st, col), height \div 2, "cut")

\* 4. Wall Margin (Static): from where the step loop ended to the top edge
WallMargin002(L, st, col, th) ==
  Segment(L.B, "part002", col, "wallMargin", XLeft(st, col), XRight(st, col),
          L.currentPos, AddScaled(Vec(0, 0, 0), vecWall(st), height \div 2),
          normWall(st), th, L.currentPaperY, height \div 2)

\* Active strip: floor margin, cut lines, the steps, wall margin
ActiveColumn002(B, st, col) ==
  LET xLeft == XLeft(st, col)
      xRight == XRight(st, col)
      th == Thickness(st)
      radius == profileRadius(st, col)
      steps == Steps002(st)
      yStart == 0 - radius
      b1 == Segment(B, "part002", col, "floorMargin", xLeft, xRight,
                    Vec(0, 0 - height \div 2, 0), Vec(0, yStart, 0), normFloor, th,
                    0 - height \div 2, yStart)
      b2 == CutLines002(b1, st, col)
  IN WallMargin002(StepLoop002([B |-> b2, currentPos |-> Vec(0, yStart, 0),
                                currentPaperY |-> yStart],
                               st, col, 0, steps, radius, th),
                   st, col, th)

\* ============================================ src/utils/mathEngine.ts builder
\* The height factors below are in TrigScale units, with frequency = 1 (so
\* sphWidth = pyrWidth = 1, torScale = 2, pTiers = 6), curvature = 2 and
\* heightMapData = null; x is normX, r is state.roughness.

\* a * b * k * d for factors in TrigScale units
Mul4(a, b, k, d) == MulT(MulT(MulT(a, b), k), d)

\* case 'sphere': (1 - sphX^2)^(1/2), plus |sin(40 x)| * roughness * 0.2 * baseVal
sphereFactor(x, r, baseVal) ==
  IF r > 0 THEN baseVal + Mul4(Abs(SinRad(40 * x)), r, TrigScale \div 5, baseVal)
  ELSE baseVal

\* floor(v * steps) / steps
Quantize(v, steps) == RoundDiv(((v * steps) \div TrigScale) * TrigScale, steps)

\* case 'pyramid': max(0, 1 - pyrX)^2, quantized to 2 + floor((1.1 - roughness) * 20) levels
pyramidFactor(x, r, basePyr) ==
  IF r > 0
  THEN Quantize(basePyr, 2 + (((11 * TrigScale) \div 10 - r) * 20) \div TrigScale)
  ELSE basePyr

\* case 'torus': baseTor plus sin(30 x) * roughness * 0.3 * baseTor
torusFactor(x, r, baseTor) ==
  IF r > 0 THEN baseTor + Mul4(SinRad(30 * x), r, (3 * TrigScale) \div 10, baseTor)
  ELSE baseTor

\* case 'pagoda', roughness: a tier phase below 0.2 lifts curvedP
pagodaCurved(r, curvedP, tierPhase) ==
  IF r > 0 /\ tierPhase < TrigScale \div 5
  THEN curvedP + MulT(MulT(TrigScale \div 5 - tierPhase, r), TrigScale \div 2)
  ELSE curvedP

\* case 'pagoda': floor(curvedP * pTiers) / pTiers with pTiers = 2 + floor(4 * frequency)
pagodaFactor(r, rawPagoda) ==
  Quantize(pagodaCurved(r, rawPagoda, (rawPagoda * 6) % TrigScale), 6)

\* case 'vase': (cos(2 vx) * 0.5 + 0.5) * envelope, plus cos(60 x) * roughness * 0.1 * envelope;
\* 2 vx = 3 * normX * Math.PI
vaseFactor(x, r, cos2vx, envelope) ==
  MulT(cos2vx \div 2 + TrigScale \div 2, envelope)
    + (IF r > 0 THEN Mul4(CosRad(60 * x), r, TrigScale \div 10, envelope) ELSE 0)

\* pseudoRand - Math.floor(pseudoRand), pseudoRand = Math.sin(c * 12.9898) * 43758.5453,
\* for c = 0..6
CanyonNoise == <<0, 9217, 572, 5582, 3737, 4535, 6261>>

\* case 'canyon': min(1, max(0, cx))^2 plus noise * roughness * 0.2
canyonFactor(col, r, baseCanyon) ==
  IF r > 0 THEN baseCanyon + MulT(MulT(CanyonNoise[col + 1], r), TrigScale \div 5)
  ELSE baseCanyon

\* What the compiled formula returns for (x, f, i, Math), f = 1: a number, NaN
\* or an infinity; "throws" when evaluating it throws and "SyntaxError" when
\* new Function(...) does
EvalFormula(formula, x) ==
  CASE formula = InitialFormula ->
         [kind |-> "number", value |-> MulT(SinRad(10 * x), CosRad(5 * x))]
    [] formula = "x" -> [kind |-> "number", value |-> x]
    [] formula = "2" -> [kind |-> "number", value |-> 2 * TrigScale]
    [] formula = "0/0" -> [kind |-> "NaN"]
    [] formula = "1/0" -> [kind |-> "Infinity"]
    [] formula = "-1/0" -> [kind |-> "-Infinity"]
    [] formula = "y" -> [kind |-> "throws"]
    [] OTHER -> [kind |-> "SyntaxError"]

\* isNaN(result) ? 0 : Math.max(0, Math.min(1, Math.abs(result)))
ClampResult(result) ==
  IF result.kind = "NaN" THEN 0
  ELSE IF result.kind \in {"Infinity", "-Infinity"} THEN TrigScale
  ELSE Max(0, Min(TrigScale, Abs(result.value)))

\* try { return (formula); } catch(e) { return 0; }
safeEval(result) == IF result.kind = "throws" THEN [kind |-> "number", value |-> 0] ELSE result

\* case 'custom': the outer catch sets shapeFactor = 0 when the formula does not compile
customFactor(result) ==
  IF result.kind = "SyntaxError" THEN 0 ELSE ClampResult(safeEval(result))

\* ---------------------------------------------------------- case 'image'
\* state.heightMapData = null, the value of App's initialState
NoHeightMap == [present |-> FALSE]

\* heightMapData.data[idx]: a byte of the raster, undefined (NaN in the sum)
\* outside its 4 * width * height bytes
DataAt(hm, idx) ==
  IF idx >= 0 /\ idx < 4 * hm.width * hm.height THEN hm.fill ELSE NaN

\* const col = Math.floor(u * (imgW - 1)), u = (normX + 1) / 2 = c / cols
imageCol(hm, cols, col) == (col * (hm.width - 1)) \div cols

ImageRowBelow(hm) == hm.height

\* const row = Math.floor(imgH / 2)
imageRow(hm) == hm.height \div 2

\* const idx = (row * imgW + col) * 4
imageIdx(hm, cols, col) == (imageRow(hm) * hm.width + imageCol(hm, cols, col)) * 4

\* brightness / 255, brightness = (data[idx] + data[idx+1] + data[idx+2]) / 3
imageBrightness(d0, d1, d2) ==
  IF IsNaN(d0) \/ IsNaN(d1) \/ IsNaN(d2) THEN NaN
  ELSE RoundDiv((d0 + d1 + d2) * TrigScale, 3 * 255)

\* case 'image': if (state.heightMapData) { ... }, else shapeFactor stays 0
imageFactor(hm, cols, col) ==
  IF hm.present
  THEN imageBrightness(DataAt(hm, imageIdx(hm, cols, col)),
                       DataAt(hm, imageIdx(hm, cols, col) + 1),
                       DataAt(hm, imageIdx(hm, cols, col) + 2))
  ELSE 0

\* switch (state.algorithm) of an odd column
popupFactor(st, col, x, ax) ==
  CASE st.algorithm = "stairs" -> TrigScale
    [] st.algorithm = "sphere" ->
         IF ax < TrigScale
         THEN sphereFactor(x, st.roughness, ISqrt(TrigScale * TrigScale - ax * ax)) ELSE 0
    [] st.algorithm = "pyramid" ->
         pyramidFactor(x, st.roughness, MulT(Max(0, TrigScale - ax), Max(0, TrigScale - ax)))
    [] st.algorithm = "torus" ->
         IF Abs(4 * ax - 2 * TrigScale) < TrigScale
         THEN torusFactor(x, st.roughness,
                          ISqrt(TrigScale * TrigScale
                                - (4 * ax - 2 * TrigScale) * (4 * ax - 2 * TrigScale)))
         ELSE 0
    [] st.algorithm = "pagoda" ->
         pagodaFactor(st.roughness, Max(0, TrigScale - RoundDiv(ax * 12, 10)))
    [] st.algorithm = "vase" ->
         vaseFactor(x, st.roughness, Cos(3 * NormXPi(st, col)),
                    Max(0, TrigScale - MulT(ax, ax)))
    [] st.algorithm = "canyon" ->
         canyonFactor(col, st.roughness,
                      MulT(Min(TrigScale, Max(0, ax)), Min(TrigScale, Max(0, ax))))
    [] st.algorithm = "custom" -> customFactor(EvalFormula(st.customFormula, x))
    [] st.algorithm = "image" -> imageFactor(NoHeightMap, st.cols, col)
    [] OTHER -> 0

\* let shapeFactor = 0; if (isPopup) { switch (state.algorithm) ... }
shapeFactor(st, col) ==
  IF ~isPopup(col) THEN 0
  ELSE popupFactor(st, col, NormX(st, col), Abs(NormX(st, col)))

MaxSafeHalfHeight == height \div 2

\* const maxSafe = (height / 2) - 5
maxSafe == height \div 2 - 5 * Scale

\* Math.min(Math.abs(state.amplitude * shapeFactor), maxSafe)
amplitudeUtils(st, col) == Min(Abs(MulT(st.amplitude, shapeFactor(st, col))), maxSafe)

NeverFlat(st, col) == FALSE

\* const isFlat = amplitude < 0.5
isFlat(st, col) == amplitudeUtils(st, col) < Scale \div 2

\* run = rise = isFlat ? 0 : amplitude
RiseUtils(st, col) == IF isFlat(st, col) THEN 0 ELSE amplitudeUtils(st, col)

NumStepsAtLeastTwo(st, col) == IF isFlat(st, col) THEN 1 ELSE Max(2, st.rows)

\* numSteps = isFlat ? 1 : state.rows
numSteps(st, col) == IF isFlat(st, col) THEN 1 ELSE st.rows

\* The fold tags of the utils builder's strip joints
RiserEndType == "mountain"

TreadEndType == "valley"

RECURSIVE StepLoopUtils(_, _, _, _, _, _, _)
\* for (i = 0; i < numSteps; i++): riser, mountain, tread, valley
StepLoopUtils(L, st, col, i, n, step, th) ==
  IF i >= n THEN L
  ELSE
    LET xLeft == XLeft(st, col)
        xRight == XRight(st, col)
        pEnd == AddScaled(L.currentPos, vecWall(st), step)
        b1 == Segment(L.B, "utils", col, "riser", xLeft, xRight,
                      L.currentPos, pEnd, normWall(st), th,
                      L.currentPaperY, L.currentPaperY + step)
        paperY1 == L.currentPaperY + step
        b2 == Line(b1, xLeft, paperY1, xRight, paperY1, RiserEndType)
        pEndT == AddScaled(pEnd, vecFloor, step)
        b3 == Segment(b2, "utils", col, "tread", xLeft, xRight,
                      pEnd, pEndT, normFloor, th, paperY1, paperY1 + step)
        paperY2 == paperY1 + step
        b4 == IF i < n - 1
              THEN Line(b3, xLeft, paperY2, xRight, paperY2, TreadEndType) ELSE b3
    IN StepLoopUtils([B |-> b4, currentPos |-> pEndT, currentPaperY |-> paperY2],
                     st, col, i + 1, n, step, th)

\* 1. floor frame and 2. wall frame, pushed for every column
FramesUtils(B, st, col) ==
  LET xLeft == XLeft(st, col)
      xRight == XRight(st, col)
      th == Thickness(st)
      rise == RiseUtils(st, col)
      pWallStart == AddScaled(Vec(0, 0, 0), vecWall(st), rise)
      pWallEnd == AddScaled(Vec(0, 0, 0), vecWall(st), height \div 2)
      b1 == Segment(B, "utils", col, "floorFrame", xLeft, xRight,
                    Vec(0, 0 - height \div 2, 0), Vec(0, 0 - rise, 0), normFloor, th,
                    0 - height \div 2, 0 - rise)
  IN Segment(b1, "utils", col, "wallFrame", xLeft, xRight,
             pWallStart, pWallEnd, normWall(st), th, rise, height \div 2)

CutLinesUtilsProjected(B, st, col) ==
  LET rise == RiseUtils(st, col)
      yWall == AddScaled(Vec(0, 0, 0), vecWall(st), rise)[2]
      b1 == Line(B, XLeft(st, col), 0 - rise, XLeft(st, col), yWall, "cut")
  IN Line(b1, XRight(st, col), 0 - rise, XRight(st, col), yWall, "cut")

\* The cut lines of a strip: its side edges from yAnchorFloor to rise
CutLinesUtils(B, st, col) ==
  LET rise == RiseUtils(st, col)
      b1 == Line(B, XLeft(st, col), 0 - rise, XLeft(st, col), rise, "cut")
  IN Line(b1, XRight(st, col), 0 - rise, XRight(st, col), rise, "cut")

\* Final valley at the wall connection, where the step loop ended
FinalValleyUtils(L, xLeft, xRight) ==
  Line(L.B, xLeft, L.currentPaperY, xRight, L.currentPaperY, "valley")

\* !isFlat: blueprint lines and the strip connecting floor to wall
StripColumnUtils(B, st, col) ==
  LET xLeft == XLeft(st, col)
      xRight == XRight(st, col)
      th == Thickness(st)
      rise == RiseUtils(st, col)
      n == numSteps(st, col)
      step == RoundDiv(rise, n)
      yAnchorFloor == 0 - rise
      b1 == FramesUtils(B, st, col)
      b2 == CutLinesUtils(b1, st, col)
      b3 == Line(b2, xLeft, yAnchorFloor, xRight, yAnchorFloor, "valley")
  IN FinalValleyUtils(StepLoopUtils([B |-> b3, currentPos |-> Vec(0, yAnchorFloor, 0),
                                     currentPaperY |-> yAnchorFloor],
                                    st, col, 0, n, step, th),
                      xLeft, xRight)

\* isFlat: the flat spacer between the two frames and the hinge seam
FlatColumnUtils(B, st, col) ==
  LET xLeft == XLeft(st, col)
      xRight == XRight(st, col)
      th == Thickness(st)
      b1 == FramesUtils(B, st, col)
      pWallStart == AddScaled(Vec(0, 0, 0), vecWall(st), 0)
      b2 == Segment(b1, "utils", col, "flatSpacer", xLeft, xRight,
                    Vec(0, 0, 0), pWallStart, normFloor, th, 0, 0)
  IN Line(b2, xLeft, 0, xRight, 0, "valley")

\* ==================================================================== stats
\* Math.sqrt(Math.pow(x2 - x1, 2) + Math.pow(y2 - y1, 2)); every blueprint
\* line is axis-parallel, where the root is the absolute difference
LineLength(l) ==
  IF l.x2 = l.x1 THEN Abs(l.y2 - l.y1)
  ELSE IF l.y2 = l.y1 THEN Abs(l.x2 - l.x1)
  ELSE ISqrt((l.x2 - l.x1) * (l.x2 - l.x1) + (l.y2 - l.y1) * (l.y2 - l.y1))

RECURSIVE SumLengths(_, _, _)
\* blueprintLines.forEach: the total length of the lines whose type is in types
SumLengths(lines, types, k) ==
  IF k > Len(lines) THEN 0
  ELSE (IF lines[k].type \in types THEN LineLength(lines[k]) ELSE 0)
       + SumLengths(lines, types, k + 1)

StatsVertexCount(eng, lines, inds) ==
  IF eng = "part002"
  THEN [present |-> TRUE,
        totalCutLength |-> SumLengths(lines, {"cut"}, 1),
        totalFoldLength |-> SumLengths(lines, {"mountain", "valley"}, 1),
        polyCount |-> Len(inds) \div 4]
  ELSE [present |-> FALSE]

StatsSpineCounted(eng, lines, inds) ==
  IF eng = "part002"
  THEN [present |-> TRUE,
        totalCutLength |-> SumLengths(lines, {"cut", "spine"}, 1),
        totalFoldLength |-> SumLengths(lines, {"mountain", "valley"}, 1),
        polyCount |-> Len(inds) \div 3]
  ELSE [present |-> FALSE]

\* The stats record part_002 returns; polyCount = indices.length / 3 (the
\* integer quotient); utils/mathEngine.ts returns none
Stats(eng, lines, inds) ==
  IF eng = "part002"
  THEN [present |-> TRUE,
        totalCutLength |-> SumLengths(lines, {"cut"}, 1),
        totalFoldLength |-> SumLengths(lines, {"mountain", "valley"}, 1),
        polyCount |-> Len(inds) \div 3]
  ELSE [present |-> FALSE]

NoStats == [present |-> FALSE]

\* ================================================================== actions
\* The accumulators as the builders take them
Buffers == [positions |-> positions, normals |-> normals, indices |-> indices,
            blueprintLines |-> blueprintLines, segments |-> segments]

Store(B) ==
  /\ positions' = B.positions
  /\ normals' = B.normals
  /\ indices' = B.indices
  /\ blueprintLines' = B.blueprintLines
  /\ segments' = B.segments

StaleBuffers(B) == B

\* What an invocation starts from: const positions = [], normals = [], ...
\* (B: the buffers the previous invocation left)
FreshBuffers(B) == EmptyBuffers

NoFirst == [present |-> FALSE]

\* No harness is in use: the generator runs on its own
NoArgs == [present |-> FALSE]

NoSegmentCall == args = NoArgs

NoLayout == extents = <<>>

NoSampling == raster = NoHeightMap /\ samples = <<>>

NoSketch == sketchPoints = <<>> /\ isDrawing = FALSE /\ lastEvent = "none"

NoHistory == history = <<>> /\ historyIndex = 0 /\ edits = 0

\* No geometry has been memoized
NoMesh == [present |-> FALSE]

NoViewer == mesh = NoMesh

HarnessIdle ==
  NoSegmentCall /\ NoLayout /\ NoSampling /\ NoSketch /\ NoHistory /\ NoViewer

\* No DXF file has been written
NoExport == [layers |-> <<>>, entities |-> <<>>]

Init ==
  /\ engine \in Engines
  /\ state \in Configs
  /\ pc = "idle"
  /\ c = 0
  /\ positions = <<>>
  /\ normals = <<>>
  /\ indices = <<>>
  /\ blueprintLines = <<>>
  /\ segments = <<>>
  /\ stats = NoStats
  /\ calls = 0
  /\ first = NoFirst
  /\ dxf = NoExport
  /\ HarnessIdle

\* generateKirigamiGeometry(state) is entered: fresh buffers, c = 0
Invoke ==
  /\ pc = "idle"
  /\ pc' = "loop"
  /\ c' = 0
  /\ Store(FreshBuffers(Buffers))
  /\ stats' = NoStats
  /\ UNCHANGED <<harness, dxf, engine, state, calls, first>>

\* part_002, one iteration of for (c ...) with !isPopup
FixedColumn ==
  /\ pc = "loop" /\ c < state.cols /\ engine = "part002"
  /\ ~isPopup(c)
  /\ Store(FixedColumn002(Buffers, state, c))
  /\ c' = c + 1
  /\ UNCHANGED <<harness, dxf, engine, state, pc, stats, calls, first>>

\* part_002, one iteration with isPopup and profileRadius < 1
NegligibleColumn ==
  /\ pc = "loop" /\ c < state.cols /\ engine = "part002"
  /\ isPopup(c)
  /\ NegligibleRadius(profileRadius(state, c))
  /\ Store(NegligibleColumn002(Buffers, state, c))
  /\ c' = c + 1
  /\ UNCHANGED <<harness, dxf, engine, state, pc, stats, calls, first>>

\* part_002, one iteration with isPopup and profileRadius >= 1
ActiveColumn ==
  /\ pc = "loop" /\ c < state.cols /\ engine = "part002"
  /\ isPopup(c)
  /\ ~NegligibleRadius(profileRadius(state, c))
  /\ Store(ActiveColumn002(Buffers, state, c))
  /\ c' = c + 1
  /\ UNCHANGED <<harness, dxf, engine, state, pc, stats, calls, first>>

\* utils/mathEngine.ts, one iteration with isFlat
FlatColumn ==
  /\ pc = "loop" /\ c < state.cols /\ engine = "utils"
  /\ isFlat(state, c)
  /\ Store(FlatColumnUtils(Buffers, state, c))
  /\ c' = c + 1
  /\ UNCHANGED <<harness, dxf, engine, state, pc, stats, calls, first>>

\* utils/mathEngine.ts, one iteration with !isFlat
StripColumn ==
  /\ pc = "loop" /\ c < state.cols /\ engine = "utils"
  /\ ~isFlat(state, c)
  /\ Store(StripColumnUtils(Buffers, state, c))
  /\ c' = c + 1
  /\ UNCHANGED <<harness, dxf, engine, state, pc, stats, calls, first>>

\* The loop is over: statistics (part_002) and return
Return ==
  /\ pc = "loop" /\ c >= state.cols
  /\ pc' = "done"
  /\ stats' = Stats(engine, blueprintLines, indices)
  /\ calls' = calls + 1
  /\ first' = IF first.present THEN first
              ELSE [present |-> TRUE, state |-> state, positions |-> positions,
                    indices |-> indices,
                    blueprintLines |-> blueprintLines,
                    stats |-> Stats(engine, blueprintLines, indices)]
  /\ UNCHANGED <<harness, dxf, engine, state, c, positions, normals, indices, blueprintLines, segments>>

\* ---------------------------------------------------------------- DXF export
LayerMapNoSpine(type) ==
  CASE type = "cut" -> "CUT"
    [] type = "mountain" -> "MOUNTAIN"
    [] type = "valley" -> "VALLEY"
    [] type = "outline" -> "OUTLINE"
    [] OTHER -> "0"

\* layerMap[line.type] || '0'
LayerMap(type) ==
  CASE type = "cut" -> "CUT"
    [] type = "mountain" -> "MOUNTAIN"
    [] type = "valley" -> "VALLEY"
    [] type = "spine" -> "OUTLINE"
    [] type = "outline" -> "OUTLINE"
    [] OTHER -> "0"

\* The LAYER table of the file: name, colour (group 62) and line type (group 6)
LayerTable ==
  << [name |-> "CUT", colour |-> 1, ltype |-> "CONTINUOUS"],
     [name |-> "MOUNTAIN", colour |-> 5, ltype |-> "DASHED"],
     [name |-> "VALLEY", colour |-> 3, ltype |-> "DASHED"],
     [name |-> "OUTLINE", colour |-> 7, ltype |-> "CONTINUOUS"] >>

\* v.toFixed(4): the number of ten-thousandths of a millimetre
ToFixed4(v) == v * ((100 * 100) \div Scale)

\* The four sides of the paper
OutlineLines ==
  << [x1 |-> (0 - width) \div 2, y1 |-> (0 - height) \div 2,
      x2 |-> width \div 2, y2 |-> (0 - height) \div 2, type |-> "outline"],
     [x1 |-> width \div 2, y1 |-> (0 - height) \div 2,
      x2 |-> width \div 2, y2 |-> height \div 2, type |-> "outline"],
     [x1 |-> width \div 2, y1 |-> height \div 2,
      x2 |-> (0 - width) \div 2, y2 |-> height \div 2, type |-> "outline"],
     [x1 |-> (0 - width) \div 2, y1 |-> height \div 2,
      x2 |-> (0 - width) \div 2, y2 |-> (0 - height) \div 2, type |-> "outline"] >>

\* dxfContent.push("  0", "LINE", "  8", layer, " 10", x1, " 20", y1, " 30", "0.0",
\*                 " 11", x2, " 21", y2, " 31", "0.0")
DXFLine(line) ==
  [entity |-> "LINE", layer |-> LayerMap(line.type),
   x1 |-> ToFixed4(line.x1), y1 |-> ToFixed4(line.y1), z1 |-> 0,
   x2 |-> ToFixed4(line.x2), y2 |-> ToFixed4(line.y2), z2 |-> 0]

\* allLines.forEach(...)
DXFEntities(allLines) == [k \in 1..Len(allLines) |-> DXFLine(allLines[k])]

\* handleExportDXF: const { blueprintLines } = generateKirigamiGeometry(appState)
\* is the blueprint the invocation for this appState returned (pc = "done": the
\* configuration has not changed since); it is written, followed by the paper
\* outline, as LINE entities
ExportDXF ==
  /\ pc = "done"
  /\ dxf' = [layers |-> LayerTable,
             entities |-> DXFEntities(blueprintLines \o OutlineLines)]
  /\ UNCHANGED <<harness, engine, state, pc, c, positions, normals, indices,
                 blueprintLines, segments, stats, calls, first>>

\* The keys updateState changes between the invocations of a behaviour
UpdatedKeys == {"foldProgress", "rows"}

\* The caller of the first invocation changes one key of the configuration
\* (updateState(key, value)), or none, before it invokes the generator again
UpdateState ==
  /\ pc = "done" /\ calls = 1
  /\ \E cfg \in Configs :
       /\ \A k \in DOMAIN cfg : cfg[k] # state[k] => k \in UpdatedKeys
       /\ Cardinality({k \in DOMAIN cfg : cfg[k] # state[k]}) <= 1
       /\ state' = cfg
  /\ pc' = "idle"
  /\ UNCHANGED <<harness, dxf, engine, c, positions, normals, indices, blueprintLines, segments,
                 stats, calls, first>>

\* The caller goes back to the configuration of the first invocation
\* (undo: setAppState(history[newIndex])) and invokes the generator a third time
Undo ==
  /\ pc = "done" /\ calls = 2
  /\ state' = first.state
  /\ pc' = "idle"
  /\ UNCHANGED <<harness, dxf, engine, c, positions, normals, indices, blueprintLines, segments,
                 stats, calls, first>>

\* One invocation of the generator, and an export of its blueprint
Next ==
  \/ Invoke
  \/ FixedColumn
  \/ NegligibleColumn
  \/ ActiveColumn
  \/ FlatColumn
  \/ StripColumn
  \/ Return
  \/ ExportDXF

Spec == Init /\ [][Next]_vars

\* The generator over the configurations that exercise the profile evaluator
InitProfile ==
  /\ engine \in Engines
  /\ state \in ProfileConfigs
  /\ pc = "idle"
  /\ c = 0
  /\ positions = <<>>
  /\ normals = <<>>
  /\ indices = <<>>
  /\ blueprintLines = <<>>
  /\ segments = <<>>
  /\ stats = NoStats
  /\ calls = 0
  /\ first = NoFirst
  /\ dxf = NoExport
  /\ HarnessIdle

SpecProfile == InitProfile /\ [][Next]_vars

\* Three invocations in a row: the first, a second after updateState, a third
\* after undo.  The first configuration has the most columns and a thickness set.
ReinvokeConfigs ==
  {cfg \in Configs : cfg.cols = MaxCols /\ cfg.paperThickness # 0}

InitReinvoke == Init /\ state \in ReinvokeConfigs

NextReinvoke ==
  \/ Invoke
  \/ FixedColumn
  \/ NegligibleColumn
  \/ ActiveColumn
  \/ FlatColumn
  \/ StripColumn
  \/ Return
  \/ UpdateState
  \/ Undo

SpecReinvoke == InitReinvoke /\ [][NextReinvoke]_vars

\* =================================================================== claims
Done == pc = "done"

Cols == 0..(state.cols - 1)

\* The lines of the blueprint that belong to column col: those that start on
\* one of its two x extents
ColumnLines(col) ==
  {k \in 1..Len(blueprintLines) :
     blueprintLines[k].x1 \in {XLeft(state, col), XRight(state, col)}}

ColumnLinesOfType(col, types) ==
  {k \in ColumnLines(col) : blueprintLines[k].type \in types}

ColumnSegments(col) == {k \in 1..Len(segments) : segments[k].col = col}

\* An odd column whose strip is built (its height is not negligible)
HasStrip(col) ==
  /\ isPopup(col)
  /\ IF engine = "part002" THEN profileRadius(state, col) >= Scale
     ELSE amplitudeUtils(state, col) >= Scale \div 2

\* The height h of the strip of column col
StripHeight(col) ==
  IF engine = "part002" THEN profileRadius(state, col) ELSE amplitudeUtils(state, col)

C2_IndicesValid ==
  /\ Len(positions) = 2 * Len(indices)
  /\ \A k \in 1..Len(indices) : 0 <= indices[k] /\ indices[k] < Len(positions) \div 3
  /\ \A q \in 0..(Len(indices) \div 6 - 1) :
       /\ indices[6 * q + 1] = 4 * q
       /\ indices[6 * q + 2] = 4 * q + 1
       /\ indices[6 * q + 3] = 4 * q + 2
       /\ indices[6 * q + 4] = 4 * q
       /\ indices[6 * q + 5] = 4 * q + 2
       /\ indices[6 * q + 6] = 4 * q + 3
  /\ \A k \in 1..Len(segments) :
       \A j \in (6 * (segments[k].firstVertex \div 4) + 1)..
                (6 * (segments[k].firstVertex \div 4 + segments[k].quads)) :
          /\ indices[j] >= segments[k].firstVertex
          /\ indices[j] < segments[k].firstVertex + 4 * segments[k].quads

C2_Witness ==
  /\ pc = "loop" /\ c = 2 /\ state.cols > 2
  /\ \E k \in 1..Len(segments) : segments[k].col = 1 /\ segments[k].firstVertex > 0

SideEdge(l, col, y1, y2) ==
  /\ l.x1 = l.x2
  /\ l.x1 \in {XLeft(state, col), XRight(state, col)}
  /\ l.y1 = y1
  /\ l.y2 = y2

\* C4 as claimed: every column with a strip emits exactly two cut lines, each a
\* side edge running the full paper height; no other column emits a cut line.
C4_CutFullHeight ==
  Done => \A col \in Cols :
    IF HasStrip(col)
    THEN /\ Cardinality(ColumnLinesOfType(col, {"cut"})) = 2
         /\ \A k \in ColumnLinesOfType(col, {"cut"}) :
              SideEdge(blueprintLines[k], col, 0 - height \div 2, height \div 2)
    ELSE ColumnLinesOfType(col, {"cut"}) = {}

\* The paper-space extent of the cut lines of a strip of height h
CutExtent(h) == IF engine = "part002" THEN height \div 2 ELSE h

\* C4 (amended): every column with a strip emits exactly two cut lines, one on
\* its xLeft and one on its xRight; in part_002 they run the full paper height,
\* in utils/mathEngine.ts the strip's extent -h..+h; a fixed or negligible
\* column emits no cut line.
C4_CutSideEdges ==
  Done => \A col \in Cols :
    IF HasStrip(col)
    THEN /\ Cardinality(ColumnLinesOfType(col, {"cut"})) = 2
         /\ \A k \in ColumnLinesOfType(col, {"cut"}) :
              SideEdge(blueprintLines[k], col, 0 - CutExtent(StripHeight(col)),
                       CutExtent(StripHeight(col)))
         /\ \E k \in ColumnLinesOfType(col, {"cut"}) : blueprintLines[k].x1 = XLeft(state, col)
         /\ \E k \in ColumnLinesOfType(col, {"cut"}) : blueprintLines[k].x1 = XRight(state, col)
    ELSE ColumnLinesOfType(col, {"cut"}) = {}

C4_Witness ==
  /\ Done /\ state.cols = MaxCols
  /\ HasStrip(1) /\ ~HasStrip(0)
  /\ Cardinality(ColumnLinesOfType(1, {"cut"})) = 2
  /\ StripHeight(1) < height \div 2

\* ------------------------------------------------------------------ joints
\* Segments that lie in the floor plane, resp. the wall plane, in every pose
FloorParallel(k) ==
  segments[k].kind \in {"floor", "floorMargin", "tread", "floorFrame", "flatSpacer"}

WallParallel(k) == segments[k].kind \in {"wall", "wallMargin", "riser", "wallFrame"}

\* Equal up to the rounding the rows accumulated steps of a strip can add
Near(a, b) == Abs(a - b) <= state.rows

\* Segment b continues segment a of the same column in paper space
Joint(a, b) ==
  /\ a # b
  /\ segments[a].col = segments[b].col
  /\ segments[a].paper1 < segments[a].paper2
  /\ segments[b].paper1 < segments[b].paper2
  /\ Near(segments[a].paper2, segments[b].paper1)

\* The horizontal lines of column col at paper height y with a type in types
FoldLinesAt(col, y, types) ==
  {k \in ColumnLinesOfType(col, types) :
     /\ blueprintLines[k].y1 = blueprintLines[k].y2
     /\ Near(blueprintLines[k].y1, y)}

FoldTypes == {"mountain", "valley", "spine", "cut"}

\* C5: in every column with a strip, a fold line at a joint from a floor-parallel
\* segment (tread) into a wall-parallel one (riser) is a valley and never a
\* mountain; at a joint from a riser into a tread it is a mountain and never a
\* valley; and every valley / mountain line of the column lies on such a joint.
C5_FoldDirection ==
  Done => \A col \in Cols : HasStrip(col) =>
    /\ \A a, b \in ColumnSegments(col) :
         Joint(a, b) =>
           /\ (FloorParallel(a) /\ WallParallel(b))
                => FoldLinesAt(col, segments[a].paper2, {"mountain"}) = {}
           /\ (WallParallel(a) /\ FloorParallel(b))
                => FoldLinesAt(col, segments[a].paper2, {"valley"}) = {}
    /\ \A k \in ColumnLinesOfType(col, {"valley"}) :
         \E a, b \in ColumnSegments(col) :
           /\ Joint(a, b) /\ FloorParallel(a) /\ WallParallel(b)
           /\ Near(segments[a].paper2, blueprintLines[k].y1)
    /\ \A k \in ColumnLinesOfType(col, {"mountain"}) :
         \E a, b \in ColumnSegments(col) :
           /\ Joint(a, b) /\ WallParallel(a) /\ FloorParallel(b)
           /\ Near(segments[a].paper2, blueprintLines[k].y1)

C5_Witness ==
  /\ Done /\ HasStrip(1) /\ state.rows = MaxRows
  /\ ColumnLinesOfType(1, {"valley"}) # {}
  /\ ColumnLinesOfType(1, {"mountain"}) # {}

\* C6 as claimed: in every column with a strip of height h no line is drawn at
\* paper y = -h (floor margin / first strip segment) nor at y = +h (last strip
\* segment / wall margin).
C6_NoLineAtStripEnds ==
  Done => \A col \in Cols : HasStrip(col) =>
    /\ FoldLinesAt(col, 0 - StripHeight(col), FoldTypes) = {}
    /\ FoldLinesAt(col, StripHeight(col), FoldTypes) = {}

\* C6 (amended): no line is drawn at a joint of two segments that are coplanar
\* in every pose (both floor-parallel or both wall-parallel).  In part_002 these
\* are the joints at y = -h (floor margin / first tread) and y = +h (last riser /
\* wall margin), which carry no line; in utils/mathEngine.ts the strip starts
\* with a riser and ends with a tread, so the joints at y = -h and y = +h are
\* folds (floor to riser, tread to wall) and each carries exactly one valley line.
C6_NoLineAtCoplanarJoint ==
  Done => \A col \in Cols : HasStrip(col) =>
    /\ \A a, b \in ColumnSegments(col) :
         (Joint(a, b) /\ (FloorParallel(a) <=> FloorParallel(b)))
            => FoldLinesAt(col, segments[a].paper2, FoldTypes) = {}
    /\ engine = "part002" =>
         /\ FoldLinesAt(col, 0 - StripHeight(col), FoldTypes) = {}
         /\ FoldLinesAt(col, StripHeight(col), FoldTypes) = {}
         /\ \E a, b \in ColumnSegments(col) :
              /\ Joint(a, b) /\ FloorParallel(a) /\ FloorParallel(b)
              /\ segments[a].paper2 = 0 - StripHeight(col)
         /\ \E a, b \in ColumnSegments(col) :
              /\ Joint(a, b) /\ WallParallel(a) /\ WallParallel(b)
              /\ segments[a].paper2 = StripHeight(col)
    /\ engine = "utils" =>
         /\ Cardinality(FoldLinesAt(col, 0 - StripHeight(col), FoldTypes)) = 1
         /\ Cardinality(FoldLinesAt(col, StripHeight(col), FoldTypes)) = 1
         /\ FoldLinesAt(col, 0 - StripHeight(col), {"valley"}) # {}
         /\ FoldLinesAt(col, StripHeight(col), {"valley"}) # {}
         /\ \A a, b \in ColumnSegments(col) :
              Joint(a, b) => (FloorParallel(a) <=> WallParallel(b))

C6_Witness ==
  /\ Done /\ engine = "part002" /\ HasStrip(1) /\ state.rows = MaxRows
  /\ \E a, b \in ColumnSegments(1) :
       Joint(a, b) /\ FloorParallel(a) /\ FloorParallel(b)

\* ---------------------------------------------------------------- scenarios
KindCount(col, kinds) ==
  Cardinality({k \in ColumnSegments(col) : segments[k].kind \in kinds})

AllLinesOfType(types) ==
  {k \in 1..Len(blueprintLines) : blueprintLines[k].type \in types}

\* cols=3, rows=2, amplitude=50, algorithm=stairs, foldProgress=1
Scenario7 ==
  /\ state.cols = 3 /\ state.rows = 2 /\ state.amplitude = 50 * Scale
  /\ state.algorithm = "stairs" /\ state.foldProgress = RightAngle

\* What C7 says of the scenario, given the number of segments of a fixed column
\* and the numbers of mountain and valley lines of column 1
Scenario7Output(fixedSegments, mountains, maxValleys) ==
  /\ \A col \in {0, 2} : ~isPopup(col) /\ Cardinality(ColumnSegments(col)) = fixedSegments
                         /\ KindCount(col, {"riser", "tread"}) = 0
  /\ isPopup(1) /\ KindCount(1, {"riser"}) = 2 /\ KindCount(1, {"tread"}) = 2
  /\ Cardinality(AllLinesOfType({"cut"})) = 2
  /\ \E k \in ColumnLinesOfType(1, {"cut"}) :
        blueprintLines[k].x1 = XLeft(state, 1) /\ blueprintLines[k].x2 = XLeft(state, 1)
  /\ \E k \in ColumnLinesOfType(1, {"cut"}) :
        blueprintLines[k].x1 = XRight(state, 1) /\ blueprintLines[k].x2 = XRight(state, 1)
  /\ Cardinality(ColumnLinesOfType(1, {"mountain"})) = mountains
  /\ Cardinality(ColumnLinesOfType(1, {"valley"})) <= maxValleys

\* C7 as claimed: in the scenario columns 0 and 2 contribute 2 static segments
\* each, column 1 two riser+tread pairs, 2 cut lines, 1 mountain and at most 2
\* valley lines.
C7_Scenario == (Done /\ Scenario7) => Scenario7Output(2, 1, 2)

\* C7 (amended): the scenario's output is as claimed in part_002 (2 static
\* segments per fixed column, 1 mountain, exactly 2 valleys in column 1); in
\* utils/mathEngine.ts a fixed column contributes 3 static segments (floor frame,
\* wall frame, flat spacer) and column 1 carries 2 mountain and 3 valley lines.
C7_ScenarioPerEngine ==
  (Done /\ Scenario7) =>
     IF engine = "part002"
     THEN Scenario7Output(2, 1, 2) /\ Cardinality(ColumnLinesOfType(1, {"valley"})) = 2
     ELSE /\ Scenario7Output(3, 2, 3)
          /\ Cardinality(ColumnLinesOfType(1, {"valley"})) = 3
          /\ \A col \in {0, 2} : KindCount(col, {"floorFrame", "wallFrame", "flatSpacer"}) = 3

C7_Witness == Done /\ Scenario7 /\ engine = "part002" /\ Len(blueprintLines) > 0

\* The single hinge seam of column col: a line at paper y = 0 from xLeft to xRight
HingeSeam(l, col) ==
  /\ l.y1 = 0 /\ l.y2 = 0
  /\ l.x1 = XLeft(state, col) /\ l.x2 = XRight(state, col)

\* C8: an odd column whose height is 0 or negligible (below 1 mm in part_002,
\* below 0.5 mm in utils/mathEngine.ts) has no cut line, no mountain line and
\* exactly one valley line, the hinge seam.
C8_DegenerateColumn ==
  Done => \A col \in Cols : (isPopup(col) /\ ~HasStrip(col)) =>
    /\ ColumnLinesOfType(col, {"cut", "mountain"}) = {}
    /\ Cardinality(ColumnLinesOfType(col, {"valley"})) = 1
    /\ \A k \in ColumnLinesOfType(col, {"valley"}) : HingeSeam(blueprintLines[k], col)

C8_Witness ==
  /\ Done /\ state.cols >= 2 /\ state.amplitude = 0
  /\ Cardinality(ColumnLinesOfType(1, {"valley"})) = 1

\* C9 as claimed: every even column draws its hinge seam as a spine line and
\* draws no cut, mountain or valley line.
C9_SpineSeam ==
  Done => \A col \in Cols : ~isPopup(col) =>
    /\ \E k \in ColumnLinesOfType(col, {"spine"}) : HingeSeam(blueprintLines[k], col)
    /\ ColumnLinesOfType(col, {"cut", "mountain", "valley"}) = {}

\* C9 (amended): every even column draws its hinge seam as its only valley line
\* and draws no cut or mountain line; its spine lines (four in part_002, none in
\* utils/mathEngine.ts) are the halves of its two side edges.
C9_ValleySeam ==
  Done => \A col \in Cols : ~isPopup(col) =>
    /\ Cardinality(ColumnLinesOfType(col, {"valley"})) = 1
    /\ \A k \in ColumnLinesOfType(col, {"valley"}) : HingeSeam(blueprintLines[k], col)
    /\ ColumnLinesOfType(col, {"cut", "mountain"}) = {}
    /\ Cardinality(ColumnLinesOfType(col, {"spine"})) = (IF engine = "part002" THEN 4 ELSE 0)
    /\ \A k \in ColumnLinesOfType(col, {"spine"}) :
         \/ SideEdge(blueprintLines[k], col, 0 - height \div 2, 0)
         \/ SideEdge(blueprintLines[k], col, 0, height \div 2)

C9_Witness ==
  /\ Done /\ engine = "part002" /\ state.cols = MaxCols
  /\ Cardinality(ColumnLinesOfType(0, {"spine"})) = 4

\* The second invocation differs from the first in foldProgress and nothing else
OnlyFoldProgressChanged ==
  /\ calls = 2
  /\ state.foldProgress # first.state.foldProgress
  /\ [state EXCEPT !.foldProgress = first.state.foldProgress] = first.state

\* C10: two invocations whose configurations differ only in foldProgress return
\* the same blueprint lines in the same order and the same total cut and fold
\* lengths.
C10_BlueprintIgnoresFold ==
  (Done /\ OnlyFoldProgressChanged) =>
     /\ blueprintLines = first.blueprintLines
     /\ SumLengths(blueprintLines, {"cut"}, 1) = SumLengths(first.blueprintLines, {"cut"}, 1)
     /\ SumLengths(blueprintLines, {"mountain", "valley"}, 1)
          = SumLengths(first.blueprintLines, {"mountain", "valley"}, 1)
     /\ stats.present =>
          /\ stats.totalCutLength = first.stats.totalCutLength
          /\ stats.totalFoldLength = first.stats.totalFoldLength

C10_Witness ==
  /\ Done /\ OnlyFoldProgressChanged /\ state.cols = MaxCols
  /\ HasStrip(1) /\ positions # first.positions

\* The floor anchor and the wall anchor of a fixed column
FloorAnchor(k) == segments[k].kind \in {"floor", "floorFrame"}

WallAnchor(k) == segments[k].kind \in {"wall", "wallFrame"}

ColumnSeq(col) == SelectSeq(segments, LAMBDA s : s.col = col)

\* n pairs of kinds
Pairs(one, two, n) == [k \in 1..(2 * n) |-> IF k % 2 = 1 THEN one ELSE two]

\* The kinds of a sequence of segments, the two margins named alike in both builders
KindsOf(seq) ==
  [k \in 1..Len(seq) |->
     IF seq[k].kind \in {"floorMargin", "floorFrame"} THEN "floorMargin"
     ELSE IF seq[k].kind \in {"wallMargin", "wallFrame"} THEN "wallMargin"
     ELSE seq[k].kind]

\* The paper length of a segment
PaperLength(s) == s.paper2 - s.paper1

\* The direction a segment advances in: wallDir for a riser, floorDir for a tread
Advance(s) == IF s.kind = "riser" THEN vecWall(state) ELSE vecFloor

\* A riser or tread advances from where it starts by its paper length along its direction
AdvancesAlong(s) == s.q = AddScaled(s.p, Advance(s), PaperLength(s))

RECURSIVE SumPaperLength(_, _, _)
\* The total paper length of the segments of seq, from the k-th on, whose kind is kind
SumPaperLength(seq, kind, k) ==
  IF k > Len(seq) THEN 0
  ELSE (IF seq[k].kind = kind THEN PaperLength(seq[k]) ELSE 0)
       + SumPaperLength(seq, kind, k + 1)

\* C12 as claimed: every column with a strip of height h pushes, in this order,
\* the floor margin, rows pairs of a riser and a tread, each advancing h / rows,
\* and the wall margin.
C12_RowsPairs ==
  Done => \A col \in Cols : HasStrip(col) =>
    /\ KindsOf(ColumnSeq(col))
         = <<"floorMargin">> \o Pairs("riser", "tread", state.rows) \o <<"wallMargin">>
    /\ \A k \in 1..Len(ColumnSeq(col)) :
         ColumnSeq(col)[k].kind \in {"riser", "tread"} =>
           /\ Near(PaperLength(ColumnSeq(col)[k]), RoundDiv(StripHeight(col), state.rows))
           /\ AdvancesAlong(ColumnSeq(col)[k])

\* C12 (amended): in utils/mathEngine.ts a strip column pushes the floor frame
\* and the wall frame first and then exactly rows pairs (riser, tread), every
\* riser and tread advancing h / rows; in part_002 it pushes the floor margin,
\* then max(2, rows) pairs (tread, riser) whose treads add up to h and whose
\* risers add up to h, then the wall margin.  In both, the strip runs in paper
\* space from -h, where the floor margin ends, to +h, where the wall margin starts.
C12_PairsPerEngine ==
  Done => \A col \in Cols : HasStrip(col) =>
    /\ \A k \in 1..Len(ColumnSeq(col)) :
         ColumnSeq(col)[k].kind \in {"riser", "tread"} => AdvancesAlong(ColumnSeq(col)[k])
    /\ \E a, b \in ColumnSegments(col) :
         /\ KindsOf(segments)[a] = "floorMargin" /\ segments[a].paper2 = 0 - StripHeight(col)
         /\ KindsOf(segments)[b] = "wallMargin" /\ Near(segments[b].paper1, StripHeight(col))
    /\ IF engine = "utils"
       THEN /\ KindsOf(ColumnSeq(col))
                 = <<"floorMargin", "wallMargin">> \o Pairs("riser", "tread", state.rows)
            /\ \A k \in 3..Len(ColumnSeq(col)) :
                 PaperLength(ColumnSeq(col)[k]) = RoundDiv(StripHeight(col), state.rows)
       ELSE /\ KindsOf(ColumnSeq(col))
                 = <<"floorMargin">> \o Pairs("tread", "riser", Max(2, state.rows))
                     \o <<"wallMargin">>
            /\ Abs(SumPaperLength(ColumnSeq(col), "tread", 1) - StripHeight(col))
                 <= Max(2, state.rows)
            /\ Abs(SumPaperLength(ColumnSeq(col), "riser", 1) - StripHeight(col))
                 <= Max(2, state.rows)

C12_Witness ==
  /\ Done /\ HasStrip(1) /\ state.rows = 1
  /\ KindCount(1, {"riser"}) >= 1 /\ KindCount(1, {"tread"}) >= 1

\* The vertex coordinates column col appended to positions
ColumnPositions(col) ==
  SubSeq(positions, 3 * ColumnSeq(col)[1].firstVertex + 1,
         3 * (ColumnSeq(col)[Len(ColumnSeq(col))].firstVertex
              + 4 * ColumnSeq(col)[Len(ColumnSeq(col))].quads))

\* What the builder of this engine pushes for a fixed column at the x extents of col
FixedColumnGeometry(col) ==
  IF engine = "part002" THEN FixedColumn002(EmptyBuffers, state, col)
  ELSE FlatColumnUtils(EmptyBuffers, state, col)

\* An odd column whose profile height is below 1 unit
NegligibleHeight(col) == isPopup(col) /\ StripHeight(col) < Scale

\* C13: an odd column whose profile height is below 1 unit contributes exactly
\* the vertices a fixed column contributes at the same x extents: one floor
\* segment from -paperHeight/2 to the hinge and one wall segment from the hinge
\* to wallDir * paperHeight/2, and no riser, tread, spacer or other segment.
C13_NegligibleAsFixed ==
  Done => \A col \in Cols : NegligibleHeight(col) =>
    /\ ColumnPositions(col) = FixedColumnGeometry(col).positions
    /\ Len(ColumnSeq(col)) = 2
    /\ ColumnSeq(col)[1].kind \in {"floor", "floorFrame"}
    /\ ColumnSeq(col)[1].p = Vec(0, 0 - height \div 2, 0)
    /\ ColumnSeq(col)[1].q = Vec(0, 0, 0)
    /\ ColumnSeq(col)[2].kind \in {"wall", "wallFrame"}
    /\ ColumnSeq(col)[2].p = Vec(0, 0, 0)
    /\ ColumnSeq(col)[2].q = AddScaled(Vec(0, 0, 0), vecWall(state), height \div 2)

\* The kinds of the segments of column col, in the order they were pushed
ColumnKinds(col) == [k \in 1..Len(ColumnSeq(col)) |-> ColumnSeq(col)[k].kind]

C13_NegligiblePerEngine ==
  Done => \A col \in Cols : isPopup(col) =>
    /\ ~HasStrip(col) =>
         /\ ColumnPositions(col) = FixedColumnGeometry(col).positions
         /\ ColumnKinds(col) = (IF engine = "part002" THEN <<"floor", "wall">>
                                ELSE <<"floorFrame", "wallFrame", "flatSpacer">>)
         /\ ColumnSeq(col)[1].p = Vec(0, 0 - height \div 2, 0)
         /\ ColumnSeq(col)[1].q = Vec(0, 0, 0)
         /\ ColumnSeq(col)[2].p = Vec(0, 0, 0)
         /\ ColumnSeq(col)[2].q = AddScaled(Vec(0, 0, 0), vecWall(state), height \div 2)
    /\ (engine = "part002" /\ NegligibleHeight(col)) => ~HasStrip(col)
    /\ (engine = "utils" /\ NegligibleHeight(col) /\ StripHeight(col) >= Scale \div 2) =>
         /\ KindCount(col, {"riser"}) = state.rows
         /\ KindCount(col, {"tread"}) = state.rows

C13_Witness ==
  /\ Done /\ state.cols = MaxCols /\ isPopup(1) /\ ~HasStrip(1)
  /\ state.amplitude > 0 /\ Len(ColumnSeq(1)) >= 2

\* The profile height of column col stays within bound, and with it the fold
\* lines of the column and the strip-side ends of its two margin segments (the
\* lines up to the rounding the accumulated steps of the strip add)
HeightWithin(col, bound) ==
  /\ StripHeight(col) <= bound
  /\ \A k \in ColumnLinesOfType(col, {"mountain", "valley"}) :
       /\ Abs(blueprintLines[k].y1) <= bound + state.rows
       /\ Abs(blueprintLines[k].y2) <= bound + state.rows
  /\ \A k \in ColumnSegments(col) :
       /\ KindsOf(segments)[k] = "floorMargin" => segments[k].paper2 >= 0 - bound
       /\ KindsOf(segments)[k] = "wallMargin" => segments[k].paper1 <= bound + state.rows

\* C14 as claimed: for every column, algorithm and amplitude the profile height
\* is at most paperHeight/2 - margin, and the fold lines and margin segments of
\* the column stay inside the margin box.
C14_ClampMargin ==
  Done => \A col \in Cols : HeightWithin(col, height \div 2 - margin)

\* The clamp of the builder: paperHeight/2 - margin in part_002, maxSafe =
\* paperHeight/2 - 5 in utils/mathEngine.ts
HeightClamp == IF engine = "part002" THEN height \div 2 - margin ELSE height \div 2 - 5 * Scale

\* C14 (amended): for every column, algorithm and amplitude the profile height
\* is at most the builder's clamp (paperHeight/2 - margin in part_002,
\* paperHeight/2 - 5 in utils/mathEngine.ts), and the fold lines and the margin
\* segments' strip-side ends stay within that bound.
C14_ClampPerEngine ==
  Done => \A col \in Cols : HeightWithin(col, HeightClamp)

C14_Witness ==
  /\ Done /\ state.cols = MaxCols /\ state.amplitude > height \div 2
  /\ HasStrip(1) /\ StripHeight(1) = HeightClamp

\* C15: for every algorithm, every column and every setting of roughness the
\* height factor the profile evaluator computes for the column being built
\* lies in [0, 1].
C15_FactorBounded ==
  (engine = "utils" /\ pc = "loop" /\ c < state.cols) =>
     (0 <= shapeFactor(state, c) /\ shapeFactor(state, c) <= TrigScale)

\* The formulas that do not compile, throw, or evaluate to NaN or an infinity
FailingFormulas == {"0/0", "1/0", "-1/0", "y", "("}

\* C16: with the custom algorithm and a formula that does not compile, throws
\* or evaluates to NaN, +Infinity or -Infinity, the height factor of every
\* column is 0 (and the generator returns: every column is built flat).
C16_FormulaFailureIsZero ==
  (Done /\ engine = "utils" /\ state.algorithm = "custom"
        /\ state.customFormula \in FailingFormulas)
    => \A col \in Cols : shapeFactor(state, col) = 0 /\ ~HasStrip(col)

\* ---------------------------------------------------------------- kinematics
Dot(a, b) == a[1] * b[1] + a[2] * b[2] + a[3] * b[3]

\* Segment s runs from p to q along direction dir over its paper length, up to
\* the rounding the accumulated steps of a strip add
RunsAlong(s, dir) ==
  \A i \in 1..3 :
    Abs(s.q[i] - s.p[i] - MulT(PaperLength(s), dir[i])) <= 2 * state.rows + 2

\* C17: at foldProgress 0 the wall direction is the floor direction (0,1,0) and
\* the wall normal the floor normal (0,0,1), and every segment lies in the plane
\* z = 0; at foldProgress 1 the wall direction is (0,0,1), orthogonal to the floor
\* direction; and in every pose all wall-parallel segments of all columns run
\* along the one wall direction with the one wall normal, all floor-parallel
\* segments along the floor direction with the floor normal.
C17_Kinematics ==
  /\ state.foldProgress = 0 =>
       /\ vecWall(state) = vecFloor
       /\ normWall(state) = normFloor
       /\ \A k \in 1..Len(segments) : segments[k].p[3] = 0 /\ segments[k].q[3] = 0
  /\ state.foldProgress = RightAngle =>
       /\ vecWall(state) = Vec(0, 0, TrigScale)
       /\ Dot(vecWall(state), vecFloor) = 0
  /\ \A k \in 1..Len(segments) :
       /\ WallParallel(k) =>
            segments[k].n = normWall(state) /\ RunsAlong(segments[k], vecWall(state))
       /\ FloorParallel(k) =>
            segments[k].n = normFloor /\ RunsAlong(segments[k], vecFloor)

C17_Witness ==
  /\ Done /\ state.foldProgress = RightAngle /\ state.cols = MaxCols /\ HasStrip(1)
  /\ \E a, b \in 1..Len(segments) :
       /\ segments[a].col = 0 /\ segments[b].col = 1
       /\ WallParallel(a) /\ WallParallel(b)
       /\ segments[a].q[3] > 0 /\ segments[b].q[3] > 0

\* ---------------------------------------------------------------- DXF export
Exported == dxf # NoExport

\* The layer and colour the claim gives each line type
ClaimedLayer(type) ==
  CASE type = "cut" -> [name |-> "CUT", colour |-> 1]
    [] type = "mountain" -> [name |-> "MOUNTAIN", colour |-> 5]
    [] type = "valley" -> [name |-> "VALLEY", colour |-> 3]
    [] type \in {"spine", "outline"} -> [name |-> "OUTLINE", colour |-> 7]

\* The colour the file's layer table gives the layer called name (0: no such layer)
ColourOf(name) ==
  IF \E k \in 1..Len(dxf.layers) : dxf.layers[k].name = name
  THEN (CHOOSE l \in {dxf.layers[k] : k \in 1..Len(dxf.layers)} : l.name = name).colour
  ELSE 0

\* C18: the exported file holds exactly one LINE entity for each blueprint line,
\* in order, followed by the four paper-outline lines; each is on the layer of
\* its type (cut: CUT colour 1, mountain: MOUNTAIN colour 5, valley: VALLEY
\* colour 3, spine and outline: OUTLINE colour 7), carries the line's two end
\* points to four decimals and has z = 0 at both ends; no entity is on layer '0'.
C18_DXFLayers ==
  Exported =>
    /\ Len(dxf.entities) = Len(blueprintLines) + 4
    /\ \A k \in 1..Len(dxf.entities) :
         /\ dxf.entities[k].entity = "LINE"
         /\ dxf.entities[k].z1 = 0 /\ dxf.entities[k].z2 = 0
         /\ dxf.entities[k].layer # "0"
    /\ \A k \in 1..Len(blueprintLines) :
         /\ dxf.entities[k].layer = ClaimedLayer(blueprintLines[k].type).name
         /\ ColourOf(dxf.entities[k].layer) = ClaimedLayer(blueprintLines[k].type).colour
         /\ dxf.entities[k].x1 * Scale = blueprintLines[k].x1 * 100 * 100
         /\ dxf.entities[k].y1 * Scale = blueprintLines[k].y1 * 100 * 100
         /\ dxf.entities[k].x2 * Scale = blueprintLines[k].x2 * 100 * 100
         /\ dxf.entities[k].y2 * Scale = blueprintLines[k].y2 * 100 * 100
    /\ \A k \in (Len(blueprintLines) + 1)..Len(dxf.entities) :
         /\ dxf.entities[k].layer = "OUTLINE"
         /\ ColourOf("OUTLINE") = 7
         /\ Abs(dxf.entities[k].x1) * Scale = (width \div 2) * 100 * 100
         /\ Abs(dxf.entities[k].y1) * Scale = (height \div 2) * 100 * 100
         /\ Abs(dxf.entities[k].x2) * Scale = (width \div 2) * 100 * 100
         /\ Abs(dxf.entities[k].y2) * Scale = (height \div 2) * 100 * 100

C18_Witness ==
  /\ Exported /\ engine = "part002" /\ state.cols = MaxCols
  /\ \E k \in 1..Len(blueprintLines) : blueprintLines[k].type = "spine"
  /\ \E k \in 1..Len(blueprintLines) : blueprintLines[k].type = "cut"
  /\ \E k \in 1..Len(blueprintLines) : blueprintLines[k].type = "mountain"

\* -------------------------------------------------------------------- quads
Quads == 0..(Len(positions) \div 12 - 1)

\* Corner j (0..3) of the q-th quad of the mesh
Corner(q, j) ==
  <<positions[12 * q + 3 * j + 1], positions[12 * q + 3 * j + 2], positions[12 * q + 3 * j + 3]>>

\* a x b for two length vectors
CrossLengths(a, b) ==
  <<a[2] * b[3] - a[3] * b[2], a[3] * b[1] - a[1] * b[3], a[1] * b[2] - a[2] * b[1]>>

\* The triangle (a, b, d) has zero area
ZeroArea(a, b, d) == CrossLengths(VSub(b, a), VSub(d, a)) = <<0, 0, 0>>

\* C19: every quad of the mesh has four pairwise distinct corners, and neither
\* of its two triangles (v0, v1, v2), (v0, v2, v3) has zero area.
C19_NoZeroAreaQuad ==
  \A q \in Quads :
    /\ \A i, j \in 0..3 : i # j => Corner(q, i) # Corner(q, j)
    /\ ~ZeroArea(Corner(q, 0), Corner(q, 1), Corner(q, 2))
    /\ ~ZeroArea(Corner(q, 0), Corner(q, 2), Corner(q, 3))

\* ---------------------------------------------------------------- extrusion
\* The four corners of quad q, and the normal stored with its first vertex
QuadCorners(q) == <<Corner(q, 0), Corner(q, 1), Corner(q, 2), Corner(q, 3)>>

QuadNormal(q) == <<normals[12 * q + 1], normals[12 * q + 2], normals[12 * q + 3]>>

\* The corners v0..v3 of the top face of segment s
TopCorners(s, col) ==
  << Vec(XLeft(state, col), s.p[2], s.p[3]), Vec(XRight(state, col), s.p[2], s.p[3]),
     Vec(XRight(state, col), s.q[2], s.q[3]), Vec(XLeft(state, col), s.q[2], s.q[3]) >>

\* b is v moved by -th along the unit normal n, up to one unit of rounding
OffsetBy(b, v, n, th) == \A i \in 1..3 : Abs(b[i] - v[i] + MulT(th, n[i])) <= 1

\* The edge from a to b is longer than the 1e-6 (squared) the code asks for
LongEdge(a, b) == LengthSq(VSub(b, a)) > 0

\* Segment s, pushed with thickness th > 0, is a box: top quad (v0,v1,v2,v3)
\* with normal n; bottom quad (b0,b3,b2,b1), each b the v moved by -th along n,
\* with normal -n; then the left wall (v0,v3,b3,b0) if and only if the edge
\* v0->v3 is long enough and the right wall (v1,b1,b2,v2) if and only if the edge
\* v1->v2 is
IsBox(s, v, q0, th) ==
  /\ QuadCorners(q0) = v /\ QuadNormal(q0) = s.n
  /\ s.quads >= 2
  /\ OffsetBy(Corner(q0 + 1, 0), v[1], s.n, th)
  /\ OffsetBy(Corner(q0 + 1, 1), v[4], s.n, th)
  /\ OffsetBy(Corner(q0 + 1, 2), v[3], s.n, th)
  /\ OffsetBy(Corner(q0 + 1, 3), v[2], s.n, th)
  /\ QuadNormal(q0 + 1) = Negate(s.n)
  /\ s.quads = 2 + (IF LongEdge(v[1], v[4]) THEN 1 ELSE 0)
                 + (IF LongEdge(v[2], v[3]) THEN 1 ELSE 0)
  /\ LongEdge(v[1], v[4]) =>
       QuadCorners(q0 + 2) = <<v[1], v[4], Corner(q0 + 1, 1), Corner(q0 + 1, 0)>>
  /\ LongEdge(v[2], v[3]) =>
       QuadCorners(q0 + s.quads - 1) = <<v[2], Corner(q0 + 1, 3), Corner(q0 + 1, 2), v[3]>>

\* C20: with a configured thickness th > 0 every segment is a box (top, bottom
\* with reversed winding, side walls where the edge is long enough); with a
\* configured thickness of 0 every segment is its top quad only.
C20_Extrusion ==
  \A k \in 1..Len(segments) :
    IF state.paperThickness > 0
    THEN IsBox(segments[k], TopCorners(segments[k], segments[k].col),
               segments[k].firstVertex \div 4, state.paperThickness)
    ELSE /\ segments[k].quads = 1
         /\ QuadCorners(segments[k].firstVertex \div 4)
              = TopCorners(segments[k], segments[k].col)

\* ============================================ pushVolumetricSegment, directly
\* Coordinates a caller can hand to pushVolumetricSegment
SegmentXs == {0 - Scale, NaN}

SegmentYs == {0, NaN, Infinity}

\* Normals: the floor normal, and normals with a NaN or infinite component
SegmentNormals == {normFloor, Vec(NaN, 0, TrigScale), Vec(0, NaN, TrigScale),
                   Vec(0, Infinity, 0)}

\* The arguments of one call: the quad (xLeft, p), (xRight, p), (xRight, q),
\* (xLeft, q) as the call sites of the generator build it
SegmentArgs ==
  [present : {TRUE}, xLeft : SegmentXs, xRight : {Scale},
   p : {Vec(0, y, 0) : y \in SegmentYs}, q : {Vec(0, Scale, z) : z \in SegmentYs},
   n : SegmentNormals, thickness : Thicknesses,
   generateLeftWall : BOOLEAN, generateRightWall : BOOLEAN]

ArgV0(a) == Vec(a.xLeft, a.p[2], a.p[3])

ArgV1(a) == Vec(a.xRight, a.p[2], a.p[3])

ArgV2(a) == Vec(a.xRight, a.q[2], a.q[3])

ArgV3(a) == Vec(a.xLeft, a.q[2], a.q[3])

InitSegment ==
  /\ engine \in Engines
  /\ state \in {cfg \in Configs : cfg.algorithm = "stairs" /\ cfg.rows = 1 /\ cfg.cols = 1
                                  /\ cfg.amplitude = 0 /\ cfg.foldProgress = 0
                                  /\ cfg.paperThickness = 0}
  /\ pc = "idle"
  /\ c = 0
  /\ positions = <<>>
  /\ normals = <<>>
  /\ indices = <<>>
  /\ blueprintLines = <<>>
  /\ segments = <<>>
  /\ stats = NoStats
  /\ calls = 0
  /\ first = NoFirst
  /\ dxf = NoExport
  /\ args \in SegmentArgs
  /\ NoLayout /\ NoSampling /\ NoSketch /\ NoHistory /\ NoViewer

\* pushVolumetricSegment(positions, normals, indices, v0, v1, v2, v3, n,
\*                       thickness, generateLeftWall, generateRightWall)
\* on empty buffers
PushSegment ==
  /\ pc = "idle" /\ args.present
  /\ Store(pushVolumetricSegment(EmptyBuffers, engine, ArgV0(args), ArgV1(args),
                                 ArgV2(args), ArgV3(args), args.n, args.thickness,
                                 args.generateLeftWall, args.generateRightWall))
  /\ pc' = "done"
  /\ UNCHANGED <<harness, dxf, engine, state, c, stats, calls, first>>

NextSegment == PushSegment

SpecSegment == InitSegment /\ [][NextSegment]_vars

\* ------------------------------------------------------------------ C21
AllFinite(seq) == \A k \in 1..Len(seq) : IsFinite(seq[k])

\* Some vertex coordinate or normal component handed to the call is non-finite
NonFiniteArgs(a) ==
  \E v \in {ArgV0(a), ArgV1(a), ArgV2(a), ArgV3(a), a.n} : \E i \in 1..3 : ~IsFinite(v[i])

\* C21: when a vertex coordinate or normal component of a segment is NaN or an
\* infinity the segment appends nothing to positions, normals or indices, and
\* the buffers never hold a non-finite number.
C21_NonFiniteDiscarded ==
  /\ AllFinite(positions) /\ AllFinite(normals)
  /\ (pc = "done" /\ args.present /\ NonFiniteArgs(args)) =>
       (positions = <<>> /\ normals = <<>> /\ indices = <<>>)

\* ================================================== column layout, exactly
\* The cols slider: min="9" max="101"
MinUICols == 9

MaxUICols == 101

\* The configurations of the layout: every cols of the slider's range (and
\* between its steps), the rest as in initialState
ColumnConfigs ==
  [algorithm : {"sphere"}, rows : {1}, cols : MinUICols..MaxUICols,
   amplitude : {50 * Scale}, foldProgress : {48}, paperThickness : {Scale \div 5},
   roughness : {0}, customFormula : {InitialFormula}]

\* xBase, xLeft and xRight times cols: stripWidth = effectiveWidth / cols is
\* not rounded
xBaseExact(cols, col) == ((0 - width) \div 2 + margin) * cols + col * effectiveWidth

xLeftExact(cols, col) == xBaseExact(cols, col) + (KERF \div 2) * cols

XRightNoKerf(cols, col) == xBaseExact(cols, col) + effectiveWidth

\* xBase + stripWidth - (KERF / 2)
xRightExact(cols, col) == xBaseExact(cols, col) + effectiveWidth - (KERF \div 2) * cols

InitColumns ==
  /\ engine \in Engines
  /\ state \in ColumnConfigs
  /\ pc = "loop"
  /\ c = 0
  /\ positions = <<>>
  /\ normals = <<>>
  /\ indices = <<>>
  /\ blueprintLines = <<>>
  /\ segments = <<>>
  /\ stats = NoStats
  /\ calls = 0
  /\ first = NoFirst
  /\ dxf = NoExport
  /\ extents = <<>>
  /\ NoSegmentCall /\ NoSampling /\ NoSketch /\ NoHistory /\ NoViewer

\* One iteration of for (c ...), as far as xLeft and xRight (the same lines in
\* both builders)
LayOutColumn ==
  /\ pc = "loop" /\ c < state.cols
  /\ extents' = Append(extents, [xLeft |-> xLeftExact(state.cols, c),
                                 xRight |-> xRightExact(state.cols, c)])
  /\ c' = c + 1
  /\ UNCHANGED <<segmentVars, imageVars, sketchVars, historyVars, viewerVars, dxf, engine,
                 state, pc, positions, normals, indices, blueprintLines,
                 segments, stats, calls, first>>

NextColumns == LayOutColumn

SpecColumns == InitColumns /\ [][NextColumns]_vars

\* ------------------------------------------------------------------ C22
\* C22: on A4, for every cols in 9..101, every column has xLeft < xRight,
\* lies within [-width/2 + margin, width/2 - margin], and is separated from
\* the column before it by a gap of exactly the kerf (extents are times cols).
C22_KerfGap ==
  \A k \in 1..Len(extents) :
    /\ extents[k].xLeft < extents[k].xRight
    /\ extents[k].xLeft >= ((0 - width) \div 2 + margin) * state.cols
    /\ extents[k].xRight <= (width \div 2 - margin) * state.cols
    /\ k > 1 => /\ extents[k - 1].xRight < extents[k].xLeft
                /\ extents[k].xLeft - extents[k - 1].xRight = KERF * state.cols

\* Every column of the widest layout has been laid out
C22_Witness == state.cols = MaxUICols /\ Len(extents) = MaxUICols

\* ------------------------------------------------------------------ C23
\* The Euclidean length of blueprint line k (0 for k = 0)
EuclideanLength(k) ==
  IF k = 0 THEN 0
  ELSE IF blueprintLines[k].x2 = blueprintLines[k].x1
  THEN Abs(blueprintLines[k].y2 - blueprintLines[k].y1)
  ELSE IF blueprintLines[k].y2 = blueprintLines[k].y1
  THEN Abs(blueprintLines[k].x2 - blueprintLines[k].x1)
  ELSE ISqrt((blueprintLines[k].x2 - blueprintLines[k].x1)
               * (blueprintLines[k].x2 - blueprintLines[k].x1)
             + (blueprintLines[k].y2 - blueprintLines[k].y1)
               * (blueprintLines[k].y2 - blueprintLines[k].y1))

RECURSIVE LengthUpTo(_, _)
\* The total length of the first k blueprint lines whose type is in types
LengthUpTo(types, k) ==
  IF k = 0 THEN 0
  ELSE LengthUpTo(types, k - 1)
       + (IF blueprintLines[k].type \in types THEN EuclideanLength(k) ELSE 0)

\* C23: the returned statistics have totalCutLength = the sum of the Euclidean
\* lengths of the cut lines and totalFoldLength = the sum over the mountain and
\* valley lines; spine and outline lines add to neither (part_002, the builder
\* that returns statistics).
C23_StatsTotals ==
  (Done /\ stats.present) =>
    /\ stats.totalCutLength = LengthUpTo({"cut"}, Len(blueprintLines))
    /\ stats.totalFoldLength = LengthUpTo({"mountain", "valley"}, Len(blueprintLines))
    /\ stats.totalCutLength + stats.totalFoldLength
         + LengthUpTo({"spine", "outline"}, Len(blueprintLines))
       = LengthUpTo({"cut", "mountain", "valley", "spine", "outline"}, Len(blueprintLines))

\* Statistics were returned for a blueprint with cut, fold and spine lines
C23_Witness ==
  /\ Done /\ stats.present
  /\ stats.totalCutLength > 0 /\ stats.totalFoldLength > 0
  /\ LengthUpTo({"spine"}, Len(blueprintLines)) > 0

\* ===================================================== sampling the raster
MaxImageSize == 4

MaxImageCols == 7

\* ImageData of width x height pixels, every byte equal to fill
HeightMaps ==
  [present : {TRUE}, width : 1..MaxImageSize, height : 1..MaxImageSize, fill : {0, 255}]

ImageConfigs ==
  [algorithm : {"image"}, rows : {1}, cols : 1..MaxImageCols,
   amplitude : {50 * Scale}, foldProgress : {48}, paperThickness : {Scale \div 5},
   roughness : {0}, customFormula : {InitialFormula}]

InitImage ==
  /\ engine = "utils"
  /\ state \in ImageConfigs
  /\ pc = "loop"
  /\ c = 0
  /\ positions = <<>>
  /\ normals = <<>>
  /\ indices = <<>>
  /\ blueprintLines = <<>>
  /\ segments = <<>>
  /\ stats = NoStats
  /\ calls = 0
  /\ first = NoFirst
  /\ dxf = NoExport
  /\ raster \in HeightMaps \cup {NoHeightMap}
  /\ samples = <<>>
  /\ NoSegmentCall /\ NoLayout /\ NoSketch /\ NoHistory /\ NoViewer

\* What one iteration of for (c ...) reads of the raster: nothing in an even
\* column or without a raster
Sample(hm, cols, col) ==
  IF isPopup(col) /\ hm.present
  THEN [sampled |-> TRUE, col |-> imageCol(hm, cols, col), row |-> imageRow(hm),
        idx |-> imageIdx(hm, cols, col), shapeFactor |-> imageFactor(hm, cols, col)]
  ELSE [sampled |-> FALSE,
        shapeFactor |-> IF isPopup(col) THEN imageFactor(hm, cols, col) ELSE 0]

\* One iteration of for (c ...) of utils/mathEngine.ts with algorithm 'image',
\* as far as shapeFactor
SampleColumn ==
  /\ pc = "loop" /\ c < state.cols
  /\ samples' = Append(samples, Sample(raster, state.cols, c))
  /\ c' = c + 1
  /\ UNCHANGED <<segmentVars, layoutVars, raster, sketchVars, historyVars, viewerVars, dxf,
                 engine, state, pc, positions, normals, indices,
                 blueprintLines, segments, stats, calls, first>>

NextImage == SampleColumn

SpecImage == InitImage /\ [][NextImage]_vars

\* ------------------------------------------------------------------ C24
\* C24: with a raster of width >= 1 and height >= 1, every column that samples
\* it reads pixel column col in [0, width-1] of row floor(height/2), and the
\* bytes idx, idx+1, idx+2 lie inside the 4*width*height bytes (so the factor
\* is a number in [0, 1]); without a raster the height factor is 0.
C24_ImageSampling ==
  \A k \in 1..Len(samples) :
    /\ samples[k].sampled =>
         /\ samples[k].col >= 0 /\ samples[k].col <= raster.width - 1
         /\ 2 * samples[k].row <= raster.height /\ raster.height < 2 * samples[k].row + 2
         /\ samples[k].idx = 4 * (samples[k].row * raster.width + samples[k].col)
         /\ samples[k].idx >= 0
         /\ samples[k].idx + 2 < 4 * raster.width * raster.height
         /\ samples[k].shapeFactor >= 0 /\ samples[k].shapeFactor <= TrigScale
    /\ ~raster.present => samples[k].shapeFactor = 0
    /\ (raster.present /\ k % 2 = 0) => samples[k].sampled

\* Every column of the widest layout is done, and one of them sampled the
\* largest raster right of its first pixel column
C24_Witness ==
  /\ Len(samples) = MaxImageCols /\ raster.present
  /\ raster.width = MaxImageSize /\ raster.height = MaxImageSize
  /\ \E k \in 1..Len(samples) :
       samples[k].sampled /\ samples[k].col > 0 /\ samples[k].shapeFactor = TrigScale

\* ================================================================ SketchPad
\* Coordinates are thousandths of the pad's width and height.
\* Where the pointer can be, relative to the pad: left of it, on it, right of it
PointerXs == {0 - 50, 3, 8, 500, 1100}

PointerYs == {800}

MaxSketchPoints == 5

\* Math.max(0, Math.min(1, v))
Clamp01(v) == Max(0, Min(1000, v))

\* sketchPoints of App's initialState
InitialSketch == << [x |-> 0, y |-> 0], [x |-> 500, y |-> 800], [x |-> 1000, y |-> 0] >>

\* handleReset
ResetSketch == << [x |-> 0, y |-> 500], [x |-> 500, y |-> 1000], [x |-> 1000, y |-> 500] >>

\* addPoint: the new points, or points itself when the pointer is within 0.005
\* of the last point's x
addPoint(points, x, y) ==
  IF Len(points) > 0 /\ Abs(points[Len(points)].x - x) < 5 THEN points
  ELSE Append(points, [x |-> x, y |-> y])

RECURSIVE InsertByX(_, _, _)
\* sorted with p put after the elements from k on whose x is not larger
InsertByX(sorted, p, k) ==
  IF k > Len(sorted) THEN Append(sorted, p)
  ELSE IF sorted[k].x > p.x
  THEN SubSeq(sorted, 1, k - 1) \o <<p>> \o SubSeq(sorted, k, Len(sorted))
  ELSE InsertByX(sorted, p, k + 1)

RECURSIVE SortByX(_, _)
\* [...points].sort((a, b) => a.x - b.x), stable: the first k points, sorted
SortByX(points, k) ==
  IF k = 0 THEN <<>> ELSE InsertByX(SortByX(points, k - 1), points[k], 1)

\* if (sorted[0].x > 0.01) sorted.unshift({ x: 0, y: sorted[0].y })
PadStart(sorted) ==
  IF Len(sorted) > 0 /\ sorted[1].x > 10
  THEN <<[x |-> 0, y |-> sorted[1].y]>> \o sorted ELSE sorted

\* if (sorted[sorted.length-1].x < 0.99) sorted.push({ x: 1, y: ... })
PadEnd(sorted) ==
  IF Len(sorted) > 0 /\ sorted[Len(sorted)].x < 990
  THEN Append(sorted, [x |-> 1000, y |-> sorted[Len(sorted)].y]) ELSE sorted

InitSketch ==
  /\ engine = "utils"
  /\ state \in {cfg \in Configs : cfg.algorithm = "stairs" /\ cfg.rows = 1 /\ cfg.cols = 1
                                  /\ cfg.amplitude = 0 /\ cfg.foldProgress = 0
                                  /\ cfg.paperThickness = 0}
  /\ pc = "idle"
  /\ c = 0
  /\ positions = <<>>
  /\ normals = <<>>
  /\ indices = <<>>
  /\ blueprintLines = <<>>
  /\ segments = <<>>
  /\ stats = NoStats
  /\ calls = 0
  /\ first = NoFirst
  /\ dxf = NoExport
  /\ sketchPoints = InitialSketch
  /\ isDrawing = FALSE
  /\ lastEvent = "init"
  /\ NoSegmentCall /\ NoLayout /\ NoSampling /\ NoHistory /\ NoViewer

SketchFrame ==
  UNCHANGED <<segmentVars, layoutVars, imageVars, historyVars, viewerVars, dxf, engine,
              state, pc, c, positions, normals, indices, blueprintLines, segments, stats,
              calls, first>>

\* handlePointerDown: setIsDrawing(true); addPoint(e)
PointerDown ==
  /\ Len(sketchPoints) < MaxSketchPoints
  /\ \E px \in PointerXs, py \in PointerYs :
       sketchPoints' = addPoint(sketchPoints, Clamp01(px), Clamp01(py))
  /\ isDrawing' = TRUE
  /\ lastEvent' = "down"
  /\ SketchFrame

\* handlePointerMove: if (!isDrawing) return; addPoint(e)
PointerMove ==
  /\ isDrawing /\ Len(sketchPoints) < MaxSketchPoints
  /\ \E px \in PointerXs, py \in PointerYs :
       sketchPoints' = addPoint(sketchPoints, Clamp01(px), Clamp01(py))
  /\ lastEvent' = "move"
  /\ UNCHANGED isDrawing
  /\ SketchFrame

\* handlePointerUp, the handler of onPointerUp and of onPointerLeave
PointerUp ==
  /\ isDrawing' = FALSE
  /\ sketchPoints' = PadEnd(PadStart(SortByX(sketchPoints, Len(sketchPoints))))
  /\ lastEvent' = "up"
  /\ SketchFrame

\* handleReset
Reset ==
  /\ sketchPoints' = ResetSketch
  /\ lastEvent' = "reset"
  /\ UNCHANGED isDrawing
  /\ SketchFrame

\* handleClear
Clear ==
  /\ sketchPoints' = <<>>
  /\ lastEvent' = "clear"
  /\ UNCHANGED isDrawing
  /\ SketchFrame

NextSketch ==
  \/ PointerDown
  \/ PointerMove
  \/ PointerUp
  \/ Reset
  \/ Clear

SpecSketch == InitSketch /\ [][NextSketch]_vars

\* ------------------------------------------------------------------ C25
\* The points are in non-decreasing order of x
OrderedByX(points) ==
  \A i \in 1..Len(points) : \A j \in 1..Len(points) : i < j => points[i].x <= points[j].x

\* No two points have the same x
DistinctXs(points) ==
  \A i \in 1..Len(points) : \A j \in 1..Len(points) : i # j => points[i].x # points[j].x

\* The points span the pad: from x <= 0.01 to x >= 0.99
SpansPad(points) == points[1].x <= 10 /\ points[Len(points)].x >= 990

\* C25: after any sequence of pointer-down, pointer-move, pointer-up/leave,
\* reset and clear events the sketch points of the configuration are ordered
\* by non-decreasing x, no two share an x, and, when non-empty after a stroke
\* has ended, they span x <= 0.01 to x >= 0.99.
C25_SketchOrdered ==
  /\ OrderedByX(sketchPoints)
  /\ DistinctXs(sketchPoints)
  /\ (lastEvent = "up" /\ sketchPoints # <<>>) => SpansPad(sketchPoints)

\* ------------------------------------------------------------------ C26
\* The risers and treads of column col, in the order they were pushed
StripOf(col) == SelectSeq(ColumnSeq(col), LAMBDA s : s.kind \in {"riser", "tread"})

\* The floor margin (name = "floorMargin") or wall margin of column col
MarginOf(col, name) ==
  segments[CHOOSE k \in ColumnSegments(col) : KindsOf(segments)[k] = name]

\* The wall direction at the fold angle: (0, cos, sin)
WallDir == Vec(0, Cos(state.foldProgress), Sin(state.foldProgress))

\* Rounding of the step lengths adds up to at most this many units
ChainTolerance == 2 * Max(2, state.rows)

NearVec(a, b) == \A i \in 1..3 : Abs(a[i] - b[i]) <= ChainTolerance

\* The chain strip of height h starts where the floor margin ends, is
\* connected, ends at wallDir * h where the wall margin starts, and with the
\* margins is as long as the paper is high
ChainCloses(strip, floorM, wallM, h) ==
  /\ Len(strip) >= 2
  /\ floorM.q = Vec(0, 0 - h, 0) /\ floorM.paper2 = 0 - h
  /\ strip[1].p = floorM.q /\ strip[1].paper1 = floorM.paper2
  /\ \A k \in 2..Len(strip) :
       strip[k].p = strip[k - 1].q /\ strip[k].paper1 = strip[k - 1].paper2
  /\ NearVec(strip[Len(strip)].q, AddScaled(Vec(0, 0, 0), WallDir, h))
  /\ NearVec(strip[Len(strip)].q, wallM.p)
  /\ Abs(strip[Len(strip)].paper2 - h) <= ChainTolerance
  /\ Abs(wallM.paper1 - h) <= ChainTolerance
  /\ Abs(PaperLength(floorM) + SumPaperLength(strip, "riser", 1)
         + SumPaperLength(strip, "tread", 1) + PaperLength(wallM) - height)
       <= ChainTolerance

\* C26: for every active column of non-negligible height h the strip chain
\* starts at (0, -h, 0) where the floor margin ends, every segment starts where
\* the previous one ends, the chain ends at wallDir * h where the wall margin
\* starts, and in paper space it runs from -h to +h, so that floor margin, strip
\* and wall margin together are paperHeight long.
C26_ChainClosure ==
  Done => \A col \in Cols : HasStrip(col) =>
    ChainCloses(StripOf(col), MarginOf(col, "floorMargin"), MarginOf(col, "wallMargin"),
                StripHeight(col))

\* A strip of the largest number of rows on a partly folded sheet
C26_Witness ==
  /\ Done /\ state.cols >= 2 /\ HasStrip(1) /\ state.rows = MaxRows
  /\ state.foldProgress = 48 /\ Len(StripOf(1)) >= 2 * MaxRows

\* ============================================================ App: history
\* if (newHistory.length > 20) newHistory.shift()
MaxHistory == 20

\* How many times the user changes a value in one behaviour
MaxEdits == 2

\* The configurations the user moves between: two algorithm buttons and two
\* positions of the rows slider
HistoryConfigs ==
  [algorithm : {"sphere", "pyramid"}, rows : {1, 2}, cols : {1},
   amplitude : {50 * Scale}, foldProgress : {48}, paperThickness : {Scale \div 5},
   roughness : {0}, customFormula : {InitialFormula}]

\* history[index] of the code (0-based)
HistoryAt(h, index) == h[index + 1]

PushSnapshotUnbounded(h, index, appState) == Append(SubSeq(h, 1, index + 1), appState)

\* newHistory = history.slice(0, historyIndex + 1); newHistory.push(appState);
\* if (newHistory.length > 20) newHistory.shift()
PushSnapshot(h, index, appState) ==
  IF index + 2 > MaxHistory
  THEN Tail(Append(SubSeq(h, 1, index + 1), appState))
  ELSE Append(SubSeq(h, 1, index + 1), appState)

UndoSnapshotStale(h, newIndex) == h[newIndex + 2]

\* setAppState(history[newIndex])
undoSnapshot(h, newIndex) == HistoryAt(h, newIndex)

InitHistory ==
  /\ engine = "utils"
  /\ state \in {cfg \in HistoryConfigs : cfg.algorithm = "sphere" /\ cfg.rows = 1}
  /\ pc = "idle"
  /\ c = 0
  /\ positions = <<>>
  /\ normals = <<>>
  /\ indices = <<>>
  /\ blueprintLines = <<>>
  /\ segments = <<>>
  /\ stats = NoStats
  /\ calls = 0
  /\ first = NoFirst
  /\ dxf = NoExport
  /\ history = <<state>>
  /\ historyIndex = 0
  /\ edits = 0
  /\ NoSegmentCall /\ NoLayout /\ NoSampling /\ NoSketch /\ NoViewer

HistoryFrame ==
  UNCHANGED <<segmentVars, layoutVars, imageVars, sketchVars, viewerVars, dxf, engine,
              pc, c, positions, normals, indices, blueprintLines, segments, stats,
              calls, first>>

\* A slider's onChange: updateState('rows', value); no commit in this handler
SliderChange ==
  /\ edits < MaxEdits
  /\ \E value \in {1, 2} : state' = [state EXCEPT !.rows = value]
  /\ edits' = edits + 1
  /\ UNCHANGED <<history, historyIndex>>
  /\ HistoryFrame

\* A slider's onPointerUp (or the formula field's onBlur): commitState(), which
\* reads the appState, history and historyIndex of the last render
CommitState ==
  /\ history' = PushSnapshot(history, historyIndex, state)
  /\ historyIndex' = Len(history') - 1
  /\ UNCHANGED <<state, edits>>
  /\ HistoryFrame

\* An algorithm button's onClick: updateState('algorithm', algo); commitState().
\* setAppState is queued; commitState reads the appState of the render the
\* handler was created in, the one before the update
SelectAlgorithm ==
  /\ edits < MaxEdits
  /\ \E algo \in {"sphere", "pyramid"} : state' = [state EXCEPT !.algorithm = algo]
  /\ history' = PushSnapshot(history, historyIndex, state)
  /\ historyIndex' = Len(history') - 1
  /\ edits' = edits + 1
  /\ HistoryFrame

\* The undo button's onClick: undo()
UndoClick ==
  /\ IF historyIndex > 0
     THEN /\ historyIndex' = historyIndex - 1
          /\ state' = undoSnapshot(history, historyIndex - 1)
     ELSE UNCHANGED <<state, historyIndex>>
  /\ UNCHANGED <<history, edits>>
  /\ HistoryFrame

NextHistory ==
  \/ SliderChange
  \/ CommitState
  \/ SelectAlgorithm
  \/ UndoClick

SpecHistory == InitHistory /\ [][NextHistory]_vars

\* ------------------------------------------------------------------ C27
\* A commit at the last index of a full history drops the oldest snapshot
DropsOldest ==
  (Len(history) = MaxHistory /\ historyIndex = MaxHistory - 1 /\ history' # history) =>
    /\ Len(history') = MaxHistory
    /\ \A k \in 1..(MaxHistory - 1) : history'[k] = history[k + 1]

\* C27: after any sequence of updates, commits and undos the history is
\* non-empty, holds at most 20 snapshots, and 0 <= historyIndex <
\* history.length; a commit that would exceed 20 drops the oldest snapshot.
C27_HistoryBounded ==
  /\ [](/\ Len(history) >= 1 /\ Len(history) <= MaxHistory
        /\ historyIndex >= 0 /\ historyIndex < Len(history))
  /\ [][DropsOldest]_vars

\* The history is full and its first snapshot is no longer the initial one
C27_Witness ==
  /\ Len(history) = MaxHistory /\ historyIndex = MaxHistory - 1
  /\ history[1].rows = 2

\* ------------------------------------------------------------------ C28
\* C28: a commit records the configuration that results from the change being
\* committed: after a step that writes the history (or moves its index), the
\* snapshot at historyIndex equals the current configuration, including the
\* value the same handler has just set.
C28_CommitRecordsChange ==
  [][(history' # history \/ historyIndex' # historyIndex) =>
       HistoryAt(history', historyIndex') = state']_vars

\* ------------------------------------------------------------------ C29
\* C29: an undo at historyIndex > 0 decrements historyIndex by exactly one,
\* sets the current configuration to the snapshot at the new index and
\* leaves the history array unchanged; an undo at index 0 changes nothing.
C29_UndoStep ==
  [][UndoClick =>
       /\ history' = history
       /\ IF historyIndex > 0
          THEN /\ historyIndex' = historyIndex - 1
               /\ state' = history[historyIndex' + 1]
          ELSE historyIndex' = historyIndex /\ state' = state]_vars

\* An undo has moved the index below the last snapshot, to a snapshot that
\* differs from the one it left
C29_Witness ==
  /\ Len(history) >= 3 /\ historyIndex = 1
  /\ state = history[2] /\ history[3] # history[2]

\* ============================================================ Viewer3D
\* How many times KirigamiMesh renders in one behaviour
MaxRenders == 2

\* The dependency list of KirigamiMesh's useMemo, over the fields of the
\* model's configuration (frequency, spread, heightMapData, fractalOctaves and
\* sketchPoints, also listed, are fixed in the model; curvature, roughness and
\* paperSize are not listed)
MemoDeps(st) ==
  <<st.algorithm, st.rows, st.cols, st.amplitude, st.foldProgress,
    st.customFormula, st.paperThickness>>

\* useMemo on a render with appState = st: the memoized geometry is kept when
\* every dependency equals the one of the render that computed it; otherwise
\* the callback runs, and the geometry is what generateKirigamiGeometry(st)
\* returns (generated)
useMemo(memo, st, generated) ==
  IF memo.present /\ memo.deps = MemoDeps(st) THEN memo
  ELSE [present |-> TRUE, deps |-> MemoDeps(st),
        positions |-> generated.positions, normals |-> generated.normals,
        indices |-> generated.indices]

\* The configurations the controls of the design tab move between
ViewerConfigs ==
  [algorithm : {"sphere", "pyramid"}, rows : {1, 2}, cols : 1..MaxCols,
   amplitude : {50 * Scale}, foldProgress : {48, RightAngle},
   paperThickness : {Scale \div 5}, roughness : Roughnesses,
   customFormula : {InitialFormula}]

\* The keys the controls write with updateState
ViewerKeys == {"algorithm", "rows", "cols", "foldProgress", "roughness"}

\* Viewer3D is about to mount: nothing is memoized yet
InitViewer ==
  /\ engine = "utils"
  /\ state \in ViewerConfigs
  /\ pc = "idle"
  /\ c = 0
  /\ positions = <<>>
  /\ normals = <<>>
  /\ indices = <<>>
  /\ blueprintLines = <<>>
  /\ segments = <<>>
  /\ stats = NoStats
  /\ calls = 0
  /\ first = NoFirst
  /\ dxf = NoExport
  /\ mesh = NoMesh
  /\ NoSegmentCall /\ NoLayout /\ NoSampling /\ NoSketch /\ NoHistory

\* KirigamiMesh renders with the current appState.  pc = "done": the buffers
\* hold what generateKirigamiGeometry(appState) returns for it, which is what
\* the useMemo callback would compute
Render ==
  /\ pc = "done"
  /\ mesh' = useMemo(mesh, state, Buffers)
  /\ pc' = "shown"
  /\ UNCHANGED <<segmentVars, layoutVars, imageVars, sketchVars, historyVars, dxf,
                 engine, state, c, positions, normals, indices, blueprintLines,
                 segments, stats, calls, first>>

\* A control's onChange: updateState(key, value); a re-render follows
UpdateField ==
  /\ pc = "shown" /\ calls < MaxRenders
  /\ \E key \in ViewerKeys : \E cfg \in ViewerConfigs :
       /\ cfg[key] # state[key]
       /\ \A k \in DOMAIN cfg : k # key => cfg[k] = state[k]
       /\ state' = cfg
  /\ pc' = "idle"
  /\ UNCHANGED <<harness, dxf, engine, c, positions, normals, indices,
                 blueprintLines, segments, stats, calls, first>>

NextViewer ==
  \/ Invoke
  \/ FlatColumn
  \/ StripColumn
  \/ Return
  \/ Render
  \/ UpdateField

SpecViewer == InitViewer /\ [][NextViewer]_vars

\* ------------------------------------------------------------------ C30
\* C30: the 3D viewer never shows stale geometry: after a change to any field
\* the geometry engine reads, the displayed mesh is the geometry the engine
\* generates for the current configuration.
C30_ViewerFresh ==
  pc = "shown" =>
    /\ mesh.positions = positions
    /\ mesh.normals = normals
    /\ mesh.indices = indices

====
